---- MODULE Spec2Model ----
(***************************************************************************)
(* ProcureSense: the layered, token-budgeted context (ContextManager), the *)
(* Global Policy Critic and the places that derive a final compliance      *)
(* status, modelled from the Python sources under src/src.                 *)
(*                                                                         *)
(* Texts.  A context item is a record that keeps what the code looks at:   *)
(* w (number of whitespace separated words), p (number of characters that  *)
(* are neither word characters nor whitespace), cls (the branch of the     *)
(* keyword test chain of the list it lives in that the text takes), and,   *)
(* for the summaries the code writes, the number n and the topic set that  *)
(* appear in the summary text.                                             *)
(***************************************************************************)
EXTENDS Integers, Sequences, FiniteSets, TLC

VARIABLES
    total_budget,   \* ContextBudgetConfig.total_budget of the ContextManager
    gpc_store,      \* GPCManager._gpc_context, the loaded policy snapshot
    ctx,            \* the LayeredContext being built / pruned
    before,         \* ctx as it was when the last operation was entered
    target,         \* target_tokens of the last prune_context call
    passlog,        \* what the last prune_context pass computed, phase by phase
    sim,            \* result dictionary of simulate_extreme_pruning
    passes,         \* number of prune_context calls made on ctx
    pc,             \* position of the caller of the ContextManager
    crit,           \* state of the critic harness (see the critic section)
    im,             \* the IntegrationManager with its AgentWorkflow and callers
    api,            \* app_state of the HTTP API and the last agent request served
    pol,            \* GPCManager: its rules, a reload in progress, a reader's view
    neg,            \* a negotiation request on its way through validation and agent
    fc,             \* a forecast request on its way through the API and the agent
    client          \* a BaseLLMClient.generate call with its attempts and waits

vars == <<total_budget, gpc_store, ctx, before, target, passlog, sim, passes, pc,
          crit, im, api, pol, neg, fc, client>>

\* the components outside the context assembler and the critic harness
sysVars == <<im, api, pol, neg, fc, client>>

ctxVars == <<total_budget, gpc_store, ctx, before, target, passlog, sim, passes, pc>>

\* the context assembler without the policy store
asmVars == <<total_budget, ctx, before, target, passlog, sim, passes, pc>>

(***************************************************************************)
(* Bounds                                                                  *)
(***************************************************************************)
\* how many items beyond the code's keep-thresholds a list may hold
Extra == 1
\* how many prune_context calls are made on one context
MaxPasses == 2

Max(a, b) == IF a >= b THEN a ELSE b
Min(a, b) == IF a <= b THEN a ELSE b

RECURSIVE SumSeq(_)
SumSeq(s) == IF s = <<>> THEN 0 ELSE Head(s) + SumSeq(Tail(s))

SelectCls(s, classes) == SelectSeq(s, LAMBDA it : it.cls \in classes)

Take(s, k) == SubSeq(s, 1, Min(k, Len(s)))
LastK(s, k) == SubSeq(s, Max(1, Len(s) - k + 1), Len(s))
DropLastK(s, k) == SubSeq(s, 1, Max(0, Len(s) - k))

(***************************************************************************)
(* TokenCounter                                                            *)
(***************************************************************************)
\* TOKENS_PER_WORD, times ten
TokensPerWord10(content_type) ==
    CASE content_type = "text" -> 13
      [] content_type = "code" -> 15
      [] content_type = "json" -> 12
      [] content_type = "technical" -> 14
      [] OTHER -> 13

\* The product (words + special_chars * 0.5) * 1.4 is computed in binary
\* floating point; for these values of 2*words + special_chars (below 330) it
\* falls just short of the exact integer and int() truncates one lower.  The
\* other multipliers have no such value.
FloatShort(x, content_type) ==
    IF content_type = "technical" /\ x \in {90, 170, 180} THEN 1 ELSE 0

\* count_tokens: int((words + special_chars * 0.5) * multiplier), at least 1,
\* and 0 for an empty or whitespace-only text.
count_tokens(it, content_type) ==
    IF it.w = 0 THEN 0
    ELSE Max(1, (((2 * it.w + it.p) * TokensPerWord10(content_type)) \div 20)
                - FloatShort(2 * it.w + it.p, content_type))

count_list_tokens(items, content_type) ==
    SumSeq([i \in 1..Len(items) |-> count_tokens(items[i], content_type)])

\* str(dict) of a dict with single-word keys: "{'k': v, ...}".  An entry
\* is given by the words of its value (w) and the special characters it brings
\* (p: the quotes around the key, the colon, and those of the printed value).
\* Each key is glued to its colon and to the first word of nothing else, so
\* it is one more word; the braces and the separating commas are special
\* characters.
DictRepr(entries) ==
    [tag |-> "repr", cls |-> "none", n |-> 0, topics |-> {},
     w |-> SumSeq([i \in 1..Len(entries) |-> 1 + entries[i].w]),
     p |-> 2 + SumSeq([i \in 1..Len(entries) |-> entries[i].p])
             + (Len(entries) - 1)]

count_dict_tokens(entries, content_type) ==
    IF entries = <<>> THEN 0 ELSE count_tokens(DictRepr(entries), content_type)

(***************************************************************************)
(* Texts of the model                                                      *)
(***************************************************************************)
Item(tag, w, p, cls) ==
    [tag |-> tag, w |-> w, p |-> p, cls |-> cls, n |-> 0, topics |-> {}]

Summary(tag, w, p, cls, n, topics) ==
    [tag |-> tag, w |-> w, p |-> p, cls |-> cls, n |-> n, topics |-> topics]

\* the i-th element of a list that cycles through `kinds`
Cycle(kinds, len) == [i \in 1..len |-> kinds[((i - 1) % Len(kinds)) + 1]]

\* conversation turns: "We discussed the negotiation strategy for the vendor,
\* in detail.", "ok", "Please run the compliance review"
TurnKinds == << Item("turn", 10, 2, "negotiation"),
                Item("turn", 1, 0, "none"),
                Item("turn", 5, 0, "compliance") >>

\* tool interactions: "api_call: GET /vendors/42 returned 200",
\* "database lookup of vendor history"
ToolKinds == << Item("tool", 5, 3, "api_call"),
                Item("tool", 5, 0, "database") >>

\* session findings: a long finding without a priority keyword and a
\* "critical risk: ..." finding
FindingKinds == << Item("finding", 20, 2, "medium"),
                   Item("finding", 6, 1, "high") >>

\* market intelligence: a long trend report, "Pricing benchmarks for software"
MarketKinds == << Item("market", 20, 2, "trend"),
                  Item("market", 4, 0, "pricing"),
                  Item("market", 20, 2, "trend") >>

\* historical patterns: "Historical negotiation outcomes for software",
\* "Seasonal pricing patterns for software", "Vendor churn in 2023"
HistoryKinds == << Item("history", 5, 0, "negotiation"),
                   Item("history", 5, 0, "seasonal"),
                   Item("history", 4, 0, "other") >>

\* vendor guidelines: "Preferred vendors for software",
\* "Mandatory compliance screening for vendors"
VendorKinds == << Item("vendor", 4, 0, "medium"),
                  Item("vendor", 5, 0, "high") >>

\* category playbooks (dict entries): the built one-liner and a text of more
\* than 200 characters that mentions "strategy"; p counts the four quotes and
\* the colon of the printed entry as well
PlaybookKinds == << Item("playbook", 5, 5, "short"),
                    Item("playbook", 40, 11, "long_strategy") >>

\* ephemeral items: a quote, an API echo
EphemeralKinds == << Item("quote", 6, 4, "none"),
                     Item("api", 12, 10, "none") >>

\* the entry of user_preferences {'currency': 'USD'}
PrefEntry == Item("pref", 1, 5, "none")

(***************************************************************************)
(* The four layers (src/models/context_types.py)                           *)
(***************************************************************************)
\* GlobalPolicyContext()
EmptyGPC ==
    [enterprise_okrs |-> <<>>, prohibited_clauses |-> <<>>,
     required_clauses |-> <<>>, budget_thresholds |-> <<>>,
     compliance_guardrails |-> <<>>, legal_requirements |-> <<>>,
     token_count |-> 0]

\* DomainStrategyContext()
EmptyDSC ==
    [category_playbooks |-> <<>>, vendor_guidelines |-> <<>>,
     market_intelligence |-> <<>>, historical_patterns |-> <<>>,
     token_count |-> 0]

\* TaskSessionContext()
EmptyTSC ==
    [conversation_turns |-> <<>>, tool_interactions |-> <<>>,
     session_findings |-> <<>>, user_preferences |-> <<>>,
     token_count |-> 0]

\* EphemeralToolContext()
EmptyETC ==
    [quotes |-> <<>>, budgets |-> <<>>, vendor_data |-> <<>>,
     api_responses |-> <<>>, token_count |-> 0]

\* LayeredContext()
EmptyContext ==
    [gpc |-> EmptyGPC, dsc |-> EmptyDSC, tsc |-> EmptyTSC, etc |-> EmptyETC,
     total_tokens |-> 0]

\* the contents of a layer, without its token_count field
Contents(layer) == [f \in (DOMAIN layer) \ {"token_count"} |-> layer[f]]

\* GlobalPolicyContext.calculate_tokens
GpcTokens(gpc) ==
      count_list_tokens(gpc.enterprise_okrs, "text")
    + count_list_tokens(gpc.prohibited_clauses, "technical")
    + count_list_tokens(gpc.required_clauses, "technical")
    + count_dict_tokens(gpc.budget_thresholds, "json")
    + count_list_tokens(gpc.compliance_guardrails, "technical")
    + count_list_tokens(gpc.legal_requirements, "technical")

\* DomainStrategyContext.calculate_tokens
DscTokens(dsc) ==
      count_dict_tokens(dsc.category_playbooks, "text")
    + count_list_tokens(dsc.vendor_guidelines, "text")
    + count_list_tokens(dsc.market_intelligence, "text")
    + count_list_tokens(dsc.historical_patterns, "text")

\* TaskSessionContext.calculate_tokens
TscTokens(tsc) ==
      count_list_tokens(tsc.conversation_turns, "text")
    + count_list_tokens(tsc.tool_interactions, "technical")
    + count_list_tokens(tsc.session_findings, "text")
    + count_dict_tokens(tsc.user_preferences, "json")

\* EphemeralToolContext.calculate_tokens
EtcTokens(etc) ==
      count_list_tokens(etc.quotes, "json")
    + count_list_tokens(etc.budgets, "json")
    + count_list_tokens(etc.vendor_data, "json")
    + count_list_tokens(etc.api_responses, "json")

\* LayeredContext.calculate_total_tokens: every layer recounts itself and
\* stores the count in its token_count field
calculate_total_tokens(c) ==
    LET g == GpcTokens(c.gpc)
        d == DscTokens(c.dsc)
        t == TscTokens(c.tsc)
        e == EtcTokens(c.etc)
    IN [gpc |-> [c.gpc EXCEPT !.token_count = g],
        dsc |-> [c.dsc EXCEPT !.token_count = d],
        tsc |-> [c.tsc EXCEPT !.token_count = t],
        etc |-> [c.etc EXCEPT !.token_count = e],
        total_tokens |-> g + d + t + e]

(***************************************************************************)
(* Policy Store (src/context/gpc_manager.py) and budget configuration      *)
(***************************************************************************)
PolicyText(w, p) == Item("policy", w, p, "none")

\* GPCManager._load_policies with the default Settings: the words and
\* special characters of the five OKRs, three prohibited and three required
\* clauses, three budget thresholds (printed as floats), five guardrails and
\* five legal requirements; token_count is calculated on load.
LoadedPolicies ==
    LET g == [enterprise_okrs |-> << PolicyText(9, 1), PolicyText(8, 1),
                                     PolicyText(8, 1), PolicyText(7, 3),
                                     PolicyText(9, 1) >>,
              prohibited_clauses |-> << PolicyText(1, 0), PolicyText(1, 0),
                                        PolicyText(1, 0) >>,
              required_clauses |-> << PolicyText(1, 0), PolicyText(1, 0),
                                      PolicyText(1, 0) >>,
              budget_thresholds |-> << PolicyText(1, 4), PolicyText(1, 4),
                                       PolicyText(1, 4) >>,
              compliance_guardrails |-> << PolicyText(10, 0), PolicyText(9, 0),
                                           PolicyText(8, 1), PolicyText(13, 1),
                                           PolicyText(10, 0) >>,
              legal_requirements |-> << PolicyText(7, 0), PolicyText(7, 0),
                                        PolicyText(7, 1), PolicyText(10, 0),
                                        PolicyText(8, 0) >>,
              token_count |-> 0]
    IN [g EXCEPT !.token_count = GpcTokens(g)]

\* the methods class GPCManager defines
GPCManagerMethods ==
    { "_load_policies", "_load_enterprise_okrs", "_load_compliance_guardrails",
      "_load_legal_requirements", "_load_compliance_rules", "get_gpc_context",
      "get_compliance_rules", "validate_contract_text",
      "validate_budget_request", "get_policy_summary", "reload_policies",
      "check_clause_compliance", "suggest_required_clauses",
      "validate_comprehensive" }

\* GPCManager.get_gpc_context
get_gpc_context(store) == store

\* the mock GPC that _build_gpc_layer returns from its except branch:
\* three two-word OKRs, two prohibited and two required clauses, two integer
\* thresholds, one guardrail and one legal requirement; token_count is the
\* dataclass default
FallbackGPC ==
    [enterprise_okrs |-> << PolicyText(2, 0), PolicyText(2, 0),
                            PolicyText(2, 0) >>,
     prohibited_clauses |-> << PolicyText(1, 0), PolicyText(1, 0) >>,
     required_clauses |-> << PolicyText(1, 0), PolicyText(1, 0) >>,
     budget_thresholds |-> << PolicyText(1, 3), PolicyText(1, 3) >>,
     compliance_guardrails |-> << PolicyText(3, 0) >>,
     legal_requirements |-> << PolicyText(3, 0) >>,
     token_count |-> 0]

\* ContextBudgetConfig.gpc_budget: int(total_budget * 0.25)
gpc_budget(total) == (total * 25) \div 100

(***************************************************************************)
(* ContextManager: building the layers (src/context/context_manager.py)    *)
(***************************************************************************)
\* _build_gpc_layer: self.gpc_manager.load_gpc() inside try; a call of a
\* method the class does not define raises AttributeError, and the except
\* branch returns the mock GPC
_build_gpc_layer(store) ==
    IF "load_gpc" \in GPCManagerMethods THEN store ELSE FallbackGPC

\* _build_dsc_layer for a one-word category: one playbook line, three vendor
\* guidelines, "Market trends for ..." and "Pricing benchmarks for ...",
\* "Historical negotiation outcomes for ..." and "Seasonal pricing patterns
\* for ..."
_build_dsc_layer(agent_type, request) ==
    [category_playbooks |-> << Item("playbook", 5, 5, "short") >>,
     vendor_guidelines |-> << Item("vendor", 4, 0, "medium"),
                              Item("vendor", 4, 0, "medium"),
                              Item("vendor", 4, 0, "medium") >>,
     market_intelligence |-> << Item("market", 4, 0, "trend"),
                                Item("market", 4, 0, "pricing") >>,
     historical_patterns |-> << Item("history", 5, 0, "negotiation"),
                                Item("history", 5, 0, "seasonal") >>,
     token_count |-> 0]

\* _build_tsc_layer
_build_tsc_layer(session_data) ==
    [conversation_turns |-> session_data.conversation_turns,
     tool_interactions |-> session_data.tool_interactions,
     session_findings |-> session_data.session_findings,
     user_preferences |-> session_data.user_preferences,
     token_count |-> 0]

\* _build_etc_layer
_build_etc_layer(request) ==
    [quotes |-> request.quotes, budgets |-> request.budgets,
     vendor_data |-> request.vendor_data,
     api_responses |-> request.api_responses, token_count |-> 0]

\* _is_within_budget
_is_within_budget(c, total) == c.total_tokens <= total

(***************************************************************************)
(* ContextManager: the pruning strategies                                  *)
(***************************************************************************)
\* _prune_etc_layer: a fresh EphemeralToolContext when anything is to go
_prune_etc_layer(etc, tokens_to_remove) ==
    IF tokens_to_remove > 0 THEN EmptyETC ELSE etc

\* the topic a turn contributes (first keyword of the if/elif chain it holds)
TurnTopics(turns) ==
    { CASE turns[i].cls = "negotiation" -> "negotiation discussion"
        [] turns[i].cls = "compliance" -> "compliance review"
        [] OTHER -> "budget forecasting"
      : i \in { j \in 1..Len(turns) :
                  turns[j].cls \in {"negotiation", "compliance", "forecast"} } }

\* _summarize_conversation_turns (called with a non-empty list):
\* "Previous discussion covered: <topics>" (two words per topic, a colon and
\* the commas between topics) or "Previous conversation (<n> turns)".  The
\* summary itself holds the keyword of the first of its topics in chain order.
_summarize_conversation_turns(turns) ==
    LET topics == TurnTopics(turns)
        k == Cardinality(topics)
    IN IF topics # {}
       THEN Summary("conversation_summary", 3 + 2 * k, 1 + (k - 1),
                    IF "negotiation discussion" \in topics THEN "negotiation"
                    ELSE IF "compliance review" \in topics THEN "compliance"
                    ELSE "forecast",
                    0, topics)
       ELSE Summary("conversation_summary", 4, 2, "none", Len(turns), {})

ToolTypes(interactions) ==
    { CASE interactions[i].cls = "api_call" -> "API calls"
        [] interactions[i].cls = "database" -> "database queries"
        [] OTHER -> "calculations"
      : i \in { j \in 1..Len(interactions) :
                  interactions[j].cls \in {"api_call", "database", "calculation"} } }

\* _summarize_tool_interactions: "Previous tool usage: <types> (<n>
\* interactions)" or "Previous tool interactions (<n> total)".  "API calls"
\* does not contain "api_call", so a summary is classed by "database" or
\* "calculation" only.
_summarize_tool_interactions(interactions) ==
    LET types == ToolTypes(interactions)
        k == Cardinality(types)
        tw == (IF "API calls" \in types THEN 2 ELSE 0)
              + (IF "database queries" \in types THEN 2 ELSE 0)
              + (IF "calculations" \in types THEN 1 ELSE 0)
    IN IF types # {}
       THEN Summary("tool_summary", 3 + tw + 2, 1 + (k - 1) + 2,
                    IF "database queries" \in types THEN "database"
                    ELSE IF "calculations" \in types THEN "calculation"
                    ELSE "none",
                    Len(interactions), types)
       ELSE Summary("tool_summary", 5, 2, "none", Len(interactions), {})

\* _compress_session_findings: "Additional findings: <n> items including
\* insights on procurement patterns" replaces more than two medium findings
_compress_session_findings(findings) ==
    IF Len(findings) <= 3 THEN findings
    ELSE LET high_priority == SelectCls(findings, {"high"})
             medium_priority == SelectCls(findings, {"medium"})
             result == high_priority \o
                 (IF medium_priority = <<>> THEN <<>>
                  ELSE IF Len(medium_priority) > 2
                       THEN << Summary("findings_summary", 9, 1, "medium",
                                       Len(medium_priority), {}) >>
                       ELSE medium_priority)
         IN Take(result, 3)

\* _prune_tsc_layer: tsc.calculate_tokens() is called before the lists are
\* rewritten and not after, so the returned layer carries the token count of
\* its contents before pruning
_prune_tsc_layer(tsc, tokens_to_remove) ==
    IF tokens_to_remove <= 0 THEN tsc
    ELSE [conversation_turns |->
              IF Len(tsc.conversation_turns) > 3
              THEN << _summarize_conversation_turns(
                          DropLastK(tsc.conversation_turns, 3)) >>
                   \o LastK(tsc.conversation_turns, 3)
              ELSE tsc.conversation_turns,
          tool_interactions |->
              IF Len(tsc.tool_interactions) > 5
              THEN << _summarize_tool_interactions(
                          DropLastK(tsc.tool_interactions, 5)) >>
                   \o LastK(tsc.tool_interactions, 5)
              ELSE tsc.tool_interactions,
          session_findings |->
              IF Len(tsc.session_findings) > 3
              THEN _compress_session_findings(tsc.session_findings)
              ELSE tsc.session_findings,
          user_preferences |-> tsc.user_preferences,
          token_count |-> TscTokens(tsc)]

\* _compress_market_intelligence: "Market trends: <n> key trends identified",
\* "Pricing intelligence: <n> pricing insights available"
_compress_market_intelligence(intelligence) ==
    IF Len(intelligence) <= 2 THEN intelligence
    ELSE LET trends == SelectCls(intelligence, {"trend"})
             pricing == SelectCls(intelligence, {"pricing"})
             key_insights == SelectCls(intelligence, {"other"})
             result ==
                 (IF trends = <<>> THEN <<>>
                  ELSE IF Len(trends) > 1
                       THEN << Summary("market_summary", 6, 1, "trend",
                                       Len(trends), {}) >>
                       ELSE trends)
                 \o (IF pricing = <<>> THEN <<>>
                     ELSE IF Len(pricing) > 1
                          THEN << Summary("market_summary", 6, 1, "pricing",
                                          Len(pricing), {}) >>
                          ELSE pricing)
                 \o Take(key_insights, 1)
         IN Take(result, 2)

\* _compress_historical_patterns
_compress_historical_patterns(patterns) ==
    IF Len(patterns) <= 2 THEN patterns
    ELSE LET seasonal == SelectCls(patterns, {"seasonal"})
             negotiation == SelectCls(patterns, {"negotiation"})
             prioritized == SelectCls(patterns, {"other"})
             picked == Take(negotiation, 1) \o Take(seasonal, 1)
             remaining_space == 2 - Len(picked)
             result == picked \o
                 (IF remaining_space > 0 THEN Take(prioritized, remaining_space)
                  ELSE <<>>)
         IN Take(result, 2)

\* _prioritize_vendor_guidelines
_prioritize_vendor_guidelines(guidelines) ==
    IF Len(guidelines) <= 3 THEN guidelines
    ELSE LET high_priority == SelectCls(guidelines, {"high"})
             medium_priority == SelectCls(guidelines, {"medium"})
             top == Take(high_priority, 2)
             remaining_space == 3 - Len(top)
             result == top \o
                 (IF remaining_space > 0
                  THEN Take(medium_priority, remaining_space) ELSE <<>>)
         IN Take(result, 3)

\* _compress_category_playbooks: entries longer than 200 characters become
\* "Strategic playbook for <category> with key negotiation points" or
\* "Procurement playbook for <category> category"; a dict of one entry is
\* returned as it is
_compress_category_playbooks(playbooks) ==
    IF Len(playbooks) <= 1 THEN playbooks
    ELSE [i \in 1..Len(playbooks) |->
            CASE playbooks[i].cls = "long_strategy" ->
                     Item("playbook", 8, 5, "short")
              [] playbooks[i].cls = "long_plain" ->
                     Item("playbook", 5, 5, "short")
              [] OTHER -> playbooks[i]]

\* _prune_dsc_layer: as for the session layer, calculate_tokens() runs before
\* the rewrite only
_prune_dsc_layer(dsc, tokens_to_remove) ==
    IF tokens_to_remove <= 0 THEN dsc
    ELSE [market_intelligence |->
              IF Len(dsc.market_intelligence) > 2
              THEN _compress_market_intelligence(dsc.market_intelligence)
              ELSE dsc.market_intelligence,
          historical_patterns |->
              IF Len(dsc.historical_patterns) > 2
              THEN _compress_historical_patterns(dsc.historical_patterns)
              ELSE dsc.historical_patterns,
          vendor_guidelines |->
              IF Len(dsc.vendor_guidelines) > 3
              THEN _prioritize_vendor_guidelines(dsc.vendor_guidelines)
              ELSE dsc.vendor_guidelines,
          category_playbooks |->
              IF dsc.category_playbooks # <<>>
              THEN _compress_category_playbooks(dsc.category_playbooks)
              ELSE dsc.category_playbooks,
          token_count |-> DscTokens(dsc)]

(***************************************************************************)
(* ContextManager.prune_context                                            *)
(***************************************************************************)
\* a pruning hierarchy that falls through to the GPC layer when tokens are
\* still to be removed after the DSC phase
Phase4GpcPruned(gpc, tokens_to_remove) ==
    IF tokens_to_remove > 0 THEN [gpc EXCEPT !.enterprise_okrs = <<>>] ELSE gpc

\* Phase 4: the GPC layer is handed back as it is
Phase4Gpc(gpc, tokens_to_remove) == gpc

Action(layer, tokens) == [layer |-> layer, tokens |-> tokens]

NoPass ==
    [ran |-> FALSE, excess0 |-> 0,
     etc_entered |-> FALSE, etc_before |-> 0, etc_removed |-> 0, excess1 |-> 0,
     tsc_entered |-> FALSE, tsc_before |-> 0, tsc_reduction |-> 0,
     tsc_removed |-> 0, tsc_after |-> 0, excess2 |-> 0,
     dsc_entered |-> FALSE, dsc_before |-> 0, dsc_reduction |-> 0,
     dsc_removed |-> 0, dsc_after |-> 0, excess3 |-> 0,
     pruning_actions |-> <<>>, warning |-> FALSE]

\* prune_context works on a record of its locals: the context being rewritten
\* in place (ctx), tokens_to_remove, and what each phase computed (log).
\* tokens_to_remove is excess0 on entry, excess1 after the ETC phase, excess2
\* after the TSC phase and excess3 after the DSC phase.
PruneEntry(c, target_tokens) ==
    [ctx |-> c,
     tokens_to_remove |-> c.total_tokens - target_tokens,
     log |-> [NoPass EXCEPT !.ran = TRUE,
                            !.excess0 = c.total_tokens - target_tokens,
                            !.etc_before = c.etc.token_count,
                            !.tsc_before = c.tsc.token_count,
                            !.dsc_before = c.dsc.token_count]]

\* Phase 1: prune ETC completely
Phase1Etc(s) ==
    LET entered == s.tokens_to_remove > 0 /\ s.ctx.etc.token_count > 0
        etc1 == _prune_etc_layer(s.ctx.etc, s.tokens_to_remove)
        etc_tokens_removed == s.ctx.etc.token_count - etc1.token_count
    IN IF ~ entered
       THEN [s EXCEPT !.log.excess1 = s.tokens_to_remove]
       ELSE [ctx |-> [s.ctx EXCEPT !.etc = etc1],
             tokens_to_remove |-> s.tokens_to_remove - etc_tokens_removed,
             log |-> [s.log EXCEPT
                 !.etc_entered = TRUE,
                 !.etc_removed = etc_tokens_removed,
                 !.excess1 = s.tokens_to_remove - etc_tokens_removed,
                 !.pruning_actions =
                     IF etc_tokens_removed > 0
                     THEN Append(@, Action("ETC", etc_tokens_removed))
                     ELSE @]]

\* Phase 2: prune TSC with rolling summaries, by up to 75% of its count
Phase2Tsc(s) ==
    LET entered == s.tokens_to_remove > 0 /\ s.ctx.tsc.token_count > 0
        max_tsc_reduction == (s.ctx.tsc.token_count * 75) \div 100
        tsc_reduction == Min(s.tokens_to_remove, max_tsc_reduction)
        tsc1 == _prune_tsc_layer(s.ctx.tsc, tsc_reduction)
        tsc_tokens_removed == s.ctx.tsc.token_count - tsc1.token_count
    IN IF ~ entered
       THEN [s EXCEPT !.log.tsc_reduction = tsc_reduction,
                      !.log.excess2 = s.tokens_to_remove]
       ELSE [ctx |-> [s.ctx EXCEPT !.tsc = tsc1],
             tokens_to_remove |-> s.tokens_to_remove - tsc_tokens_removed,
             log |-> [s.log EXCEPT
                 !.tsc_entered = TRUE,
                 !.tsc_reduction = tsc_reduction,
                 !.tsc_removed = tsc_tokens_removed,
                 !.excess2 = s.tokens_to_remove - tsc_tokens_removed,
                 !.pruning_actions =
                     IF tsc_tokens_removed > 0
                     THEN Append(@, Action("TSC", tsc_tokens_removed))
                     ELSE @]]

\* Phase 3: prune DSC with summarization, by up to 60% of its count
Phase3Dsc(s) ==
    LET entered == s.tokens_to_remove > 0 /\ s.ctx.dsc.token_count > 0
        max_dsc_reduction == (s.ctx.dsc.token_count * 60) \div 100
        dsc_reduction == Min(s.tokens_to_remove, max_dsc_reduction)
        dsc1 == _prune_dsc_layer(s.ctx.dsc, dsc_reduction)
        dsc_tokens_removed == s.ctx.dsc.token_count - dsc1.token_count
    IN IF ~ entered
       THEN [s EXCEPT !.log.dsc_reduction = dsc_reduction,
                      !.log.excess3 = s.tokens_to_remove]
       ELSE [ctx |-> [s.ctx EXCEPT !.dsc = dsc1],
             tokens_to_remove |-> s.tokens_to_remove - dsc_tokens_removed,
             log |-> [s.log EXCEPT
                 !.dsc_entered = TRUE,
                 !.dsc_reduction = dsc_reduction,
                 !.dsc_removed = dsc_tokens_removed,
                 !.excess3 = s.tokens_to_remove - dsc_tokens_removed,
                 !.pruning_actions =
                     IF dsc_tokens_removed > 0
                     THEN Append(@, Action("DSC", dsc_tokens_removed))
                     ELSE @]]

\* Phase 4 and the audit entry that goes with it
Phase4(s) ==
    LET gpc1 == Phase4Gpc(s.ctx.gpc, s.tokens_to_remove)
    IN [s EXCEPT !.ctx.gpc = gpc1,
                 !.log.pruning_actions =
                     IF s.tokens_to_remove > 0
                     THEN Append(@, Action("GPC", gpc1.token_count))
                     ELSE @]

\* the recount of the total and the summary that is printed
PruneExit(s) ==
    LET final == calculate_total_tokens(s.ctx)
    IN [ctx |-> final,
        log |-> [s.log EXCEPT
                    !.tsc_after = final.tsc.token_count,
                    !.dsc_after = final.dsc.token_count,
                    !.warning = s.log.pruning_actions # <<>>
                                /\ s.tokens_to_remove > 0]]

\* prune_context: the returned context and what each phase computed
prune_context(c, target_tokens) ==
    IF c.total_tokens <= target_tokens THEN [ctx |-> c, log |-> NoPass]
    ELSE PruneExit(Phase4(Phase3Dsc(Phase2Tsc(Phase1Etc(
             PruneEntry(c, target_tokens))))))

\* build_context
build_context(store, total, agent_type, request, session_data) ==
    LET c == calculate_total_tokens(
                 [gpc |-> _build_gpc_layer(store),
                  dsc |-> _build_dsc_layer(agent_type, request),
                  tsc |-> _build_tsc_layer(session_data),
                  etc |-> _build_etc_layer(request),
                  total_tokens |-> 0])
    IN IF ~ _is_within_budget(c, total) THEN prune_context(c, total)
       ELSE [ctx |-> c, log |-> NoPass]

NoSim ==
    [called |-> FALSE, original_total_tokens |-> 0, target_budget |-> 0,
     final_total_tokens |-> 0, gpc_tokens_preserved |-> 0,
     gpc_survived |-> FALSE, enterprise_alignment_maintained |-> FALSE]

\* simulate_extreme_pruning
simulate_extreme_pruning(c, total) ==
    LET counted == calculate_total_tokens(c)
        gpc_only_budget == gpc_budget(total)
        r == prune_context(counted, gpc_only_budget)
    IN [ctx |-> r.ctx, log |-> r.log,
        sim |-> [called |-> TRUE,
                 original_total_tokens |-> counted.total_tokens,
                 target_budget |-> gpc_only_budget,
                 final_total_tokens |-> r.ctx.total_tokens,
                 gpc_tokens_preserved |-> r.ctx.gpc.token_count,
                 gpc_survived |-> r.ctx.gpc.token_count > 0,
                 enterprise_alignment_maintained |->
                     r.ctx.gpc.token_count > 0]]

(***************************************************************************)
(* Callers of the ContextManager                                           *)
(***************************************************************************)
\* total budgets a ContextManager is configured with (1000 is the default of
\* AgentWorkflow; the small ones put build_context over budget)
Budgets == {40, 100, 1000}

AgentKinds == {"negotiation", "compliance", "forecast"}

InputTurns ==
    { Cycle(TurnKinds, n) : n \in {0, 3 + Extra} }
    \cup { Cycle(<< TurnKinds[2] >>, 3 + Extra) }

InputTools == { Cycle(ToolKinds, n) : n \in {0, 5 + Extra} }

InputFindings ==
    { <<>>, Cycle(FindingKinds, 3 + Extra), Cycle(<< FindingKinds[1] >>, 3 + Extra) }

\* session data handed to build_context, and the session layer of a
\* LayeredContext a caller constructs
InputSessions ==
    { [conversation_turns |-> t, tool_interactions |-> i,
       session_findings |-> f, user_preferences |-> u, token_count |-> 0] :
      t \in InputTurns, i \in InputTools, f \in InputFindings,
      u \in { <<>>, << PrefEntry >> } }

InputDomains ==
    { [category_playbooks |-> Cycle(PlaybookKinds, b),
       vendor_guidelines |-> Cycle(VendorKinds, IF h = 0 THEN 0 ELSE 3 + Extra),
       market_intelligence |-> Cycle(MarketKinds, m),
       historical_patterns |-> Cycle(HistoryKinds, h), token_count |-> 0] :
      b \in {0, 1 + Extra}, m \in {0, 2 + Extra}, h \in {0, 2 + Extra} }

InputEphemerals ==
    { [quotes |-> Cycle(<< EphemeralKinds[1] >>, k), budgets |-> <<>>,
       vendor_data |-> <<>>,
       api_responses |-> Cycle(<< EphemeralKinds[2] >>, k),
       token_count |-> 0] : k \in {0, Extra} }

InputPolicies == { EmptyGPC, FallbackGPC, LoadedPolicies }

\* request payloads: a category and the optional ephemeral fields
InputRequests ==
    { [category |-> "software", quotes |-> e.quotes, budgets |-> e.budgets,
       vendor_data |-> e.vendor_data, api_responses |-> e.api_responses] :
      e \in InputEphemerals }

\* targets a caller prunes a counted context to
Targets(c) ==
    { t \in { 0, c.gpc.token_count, c.total_tokens - 1, c.total_tokens - 10,
              c.total_tokens } : t >= 0 }

\* the critic harness before a text is submitted
CritIdle ==
    [pc |-> "idle",
     critic |-> [llm_client |-> [mode |-> "fixed", reply |-> <<>>],
                 gpc_context |-> "", dsc_context |-> "",
                 auto_revision_enabled |-> TRUE],
     agent_output |-> <<>>,
     original_request |->
         [category |-> "", has_target_discount_pct |-> FALSE,
          target_discount_pct |-> 0, quotes |-> <<>>, budgets |-> <<>>,
          vendor_data |-> <<>>, api_responses |-> <<>>],
     result |-> [original_output |-> <<>>,
                 revised_output |-> [present |-> FALSE, text |-> <<>>],
                 violations |-> <<>>, action_taken |-> "",
                 compliance_score |-> 0],
     prompt |-> [enterprise_policies |-> "", domain_strategy |-> "",
                 original_request |->
                     [category |-> "", has_target_discount_pct |-> FALSE,
                      target_discount_pct |-> 0, quotes |-> <<>>,
                      budgets |-> <<>>, vendor_data |-> <<>>,
                      api_responses |-> <<>>],
                 agent_output |-> <<>>],
     recheck |-> <<>>,
     site |-> "",
     status |-> ""]

\* IntegrationMetrics(); an average is kept as a fraction in lowest terms
NoAverage == [num |-> 0, den |-> 1]

IntegrationMetrics ==
    [total_requests |-> 0, successful_requests |-> 0, failed_requests |-> 0,
     compliance_violations |-> 0, auto_revisions |-> 0,
     manual_reviews_required |-> 0,
     negotiation_requests |-> 0, compliance_requests |-> 0,
     forecast_requests |-> 0,
     average_processing_time_ms |-> NoAverage,
     average_agent_time_ms |-> NoAverage,
     average_critic_time_ms |-> NoAverage,
     total_tokens_used |-> 0, gpc_tokens_used |-> 0, dsc_tokens_used |-> 0]

\* AgentWorkflow.__init__: the workflow statistics
WorkflowStatistics ==
    [total_requests |-> 0, successful_requests |-> 0, failed_requests |-> 0,
     total_violations |-> 0, auto_revisions |-> 0]

\* IntegrationManager.__init__.  tasks are the process_request coroutines in
\* flight, issued counts the request ids handed out, stored lists the ids
\* given to _store_recent_result since the last reset, folded the results
\* whose timings went into the running averages since the last reset, and
\* last is what the last completed call returned together with the metrics
\* as they were when its _update_metrics was entered.
ImIdle ==
    [metrics |-> IntegrationMetrics,
     recent_results |-> <<>>,
     workflow |-> WorkflowStatistics,
     tasks |-> {},
     issued |-> 0,
     resets |-> 0,
     stored |-> <<>>,
     folded |-> <<>>,
     last |-> [present |-> FALSE]]

\* app_state, the response of the agent endpoint answered last and the
\* compliance report fetched last
ApiIdle ==
    [request_count |-> 0,
     agent_stats |-> [negotiation |-> 0, compliance |-> 0, forecast |-> 0],
     answered |-> 0,
     response |-> [request_id |-> 0, agent_type |-> "", compliance_status |-> ""],
     report |-> [fetched |-> FALSE]]

\* GPCManager after __init__: no reload in progress, nothing read yet; the
\* generations number the snapshots the context and the rules belong to
PolIdle ==
    [writer |-> "idle", loads |-> 0,
     context_generation |-> 0, rules_generation |-> 0,
     seen |-> [present |-> FALSE]]

\* no negotiation request has been sent
NegIdle == [pc |-> "idle"]

FcIdle == [pc |-> "idle"]

\* a client that has not been used: BaseLLMClient.__init__
ClientIdle ==
    [pc |-> "idle", connection_verified |-> FALSE, generated |-> 0,
     attempt |-> 0, outcomes |-> <<>>, waits |-> <<>>,
     last_exception |-> "None", result |-> "none"]

SysIdle ==
    /\ im = ImIdle /\ api = ApiIdle /\ pol = PolIdle /\ neg = NegIdle
    /\ fc = FcIdle /\ client = ClientIdle

InitContext ==
    /\ total_budget \in Budgets
    /\ gpc_store = LoadedPolicies
    /\ ctx = EmptyContext
    /\ before = EmptyContext
    /\ target = 0
    /\ passlog = NoPass
    /\ sim = NoSim
    /\ passes = 0
    /\ pc = "idle"

\* a caller constructs a LayeredContext from layers it has at hand
Construct ==
    /\ pc = "idle"
    /\ \E g \in InputPolicies, d \in InputDomains, t \in InputSessions,
          e \in InputEphemerals :
          ctx' = [gpc |-> g, dsc |-> d, tsc |-> t, etc |-> e, total_tokens |-> 0]
    /\ before' = ctx'
    /\ pc' = "constructed"
    /\ UNCHANGED <<total_budget, gpc_store, target, passlog, sim, passes, crit, sysVars>>

\* context.calculate_total_tokens()
CalculateTotalTokens ==
    /\ pc = "constructed"
    /\ before' = ctx
    /\ ctx' = calculate_total_tokens(ctx)
    /\ pc' = "counted"
    /\ UNCHANGED <<total_budget, gpc_store, target, passlog, sim, passes, crit, sysVars>>

\* context_manager.prune_context(context, target) on a counted context
PruneContext ==
    /\ pc \in {"counted", "pruned"}
    /\ passes < MaxPasses
    /\ \E t \in (IF pc = "pruned" THEN {target} ELSE Targets(ctx)) :
          LET r == prune_context(ctx, t)
          IN /\ ctx' = r.ctx
             /\ passlog' = r.log
             /\ target' = t
    /\ before' = ctx
    /\ passes' = passes + 1
    /\ pc' = "pruned"
    /\ UNCHANGED <<total_budget, gpc_store, sim, crit, sysVars>>

\* context_manager.build_context(agent_type, request, session_data)
BuildContext ==
    /\ pc = "idle"
    /\ \E a \in AgentKinds, rq \in InputRequests, sd \in InputSessions :
          LET r == build_context(gpc_store, total_budget, a, rq, sd)
          IN /\ ctx' = r.ctx
             /\ passlog' = r.log
    /\ before' = ctx
    /\ target' = total_budget
    /\ pc' = "built"
    /\ UNCHANGED <<total_budget, gpc_store, sim, passes, crit, sysVars>>

\* context_manager.simulate_extreme_pruning(context)
SimulateExtremePruning ==
    /\ pc \in {"constructed", "counted", "built"}
    /\ LET r == simulate_extreme_pruning(ctx, total_budget)
       IN /\ ctx' = r.ctx
          /\ passlog' = r.log
          /\ sim' = r.sim
    /\ before' = calculate_total_tokens(ctx)
    /\ target' = gpc_budget(total_budget)
    /\ pc' = "simulated"
    /\ UNCHANGED <<total_budget, gpc_store, passes, crit, sysVars>>

Init == InitContext /\ crit = CritIdle /\ SysIdle

Next ==
    \/ Construct
    \/ CalculateTotalTokens
    \/ PruneContext
    \/ BuildContext
    \/ SimulateExtremePruning

Spec == Init /\ [][Next]_vars

(***************************************************************************)
(* Properties of the context assembler                                     *)
(***************************************************************************)
\* the last operation ran a pruning pass on `before` (it did not return early)
PassRan == pc \in {"pruned", "simulated"} /\ passlog.ran

\* tokens each layer really lost in the pass (recounted contents)
EtcReleased == before.etc.token_count - ctx.etc.token_count
TscReleased == before.tsc.token_count - ctx.tsc.token_count
DscReleased == before.dsc.token_count - ctx.dsc.token_count

\* C1: prune_context leaves the Policy layer (contents and token count) as
\* it was on entry, and the total of the returned context is at least the
\* Policy layer's token count.
C1_PolicyPinned ==
    pc \in {"pruned", "simulated"} =>
        /\ ctx.gpc = before.gpc
        /\ ctx.total_tokens >= ctx.gpc.token_count

\* a pass that emptied the Ephemeral layer and rewrote the Session layer of a
\* context with a non-empty Policy layer, and was still over the target
C1_Witness ==
    /\ PassRan
    /\ before.gpc.token_count > 0
    /\ before.etc.token_count > 0 /\ ctx.etc.token_count = 0
    /\ Contents(ctx.tsc) # Contents(before.tsc)
    /\ passlog.excess3 > 0

\* C2: the Policy layer of a built context has the token count of the policy
\* context the GPCManager loaded.
C2_PolicyIsStoreSnapshot ==
    pc = "built" =>
        ctx.gpc.token_count = get_gpc_context(gpc_store).token_count

\* C3: simulate_extreme_pruning reports gpc_survived and
\* enterprise_alignment_maintained as true for every context.
C3_GpcSurvived ==
    sim.called => sim.gpc_survived /\ sim.enterprise_alignment_maintained

\* C4: tokens are released in the order Ephemeral, Session, Domain and never
\* from Policy: the Session layer is modified only if excess remains after the
\* Ephemeral release, the Domain layer only if excess remains after the tokens
\* the Session layer really released are deducted as well.
C4_PruningOrder ==
    PassRan =>
        /\ ctx.gpc = before.gpc
        /\ (Contents(ctx.tsc) # Contents(before.tsc)
              => passlog.excess0 - EtcReleased > 0)
        /\ (Contents(ctx.dsc) # Contents(before.dsc)
              => passlog.excess0 - EtcReleased - TscReleased > 0)

\* C5: in one pass the Session layer loses at most min(remaining excess,
\* floor(0.75 * its tokens)) and the Domain layer at most min(remaining
\* excess, floor(0.60 * its tokens)).
C5_LayerCaps ==
    PassRan =>
        /\ TscReleased <= Min(Max(0, passlog.excess0 - EtcReleased),
                              (before.tsc.token_count * 75) \div 100)
        /\ DscReleased <= Min(Max(0, passlog.excess0 - EtcReleased - TscReleased),
                              (before.dsc.token_count * 60) \div 100)

(***************************************************************************)
(* GlobalPolicyCritic: texts and the regular expressions run over them     *)
(*                                                                         *)
(* An agent text is a sequence of words separated by blanks; the word "NL" *)
(* is a line break.  A regular expression is modelled by the word position *)
(* at which a match that starts at a given position ends (0: no match      *)
(* starts there): `.' does not cross a line break, `.*' is greedy, `\s'    *)
(* crosses blanks and line breaks, and finditer / sub take the leftmost    *)
(* match and resume after its end.  Percentages are held in hundredths of  *)
(* a percent.                                                              *)
(***************************************************************************)
\* how many phrases an agent text is made of
MaxPhrases == 4
\* how many violations the model-assisted pass reports
MaxLLM == 2

\* the percentages a text quotes: the value of \d+(?:\.\d+)? before the `%'
PctValue ==
    ("10%" :> 1000) @@ ("20%" :> 2000) @@ ("25%" :> 2500) @@
    ("35%" :> 3500) @@ ("40%" :> 4000) @@
    ("0.0%" :> 0) @@ ("1.0%" :> 100) @@ ("1.5%" :> 150) @@ ("10.0%" :> 1000) @@
    ("15.0%" :> 1500) @@ ("20.0%" :> 2000) @@ ("25.0%" :> 2500) @@
    ("30.0%" :> 3000) @@ ("60.0%" :> 6000) @@ ("85.0%" :> 8500) @@
    ("100.0%" :> 10000)

PctWords == DOMAIN PctValue

\* the percentages written with one decimal, as the format '.1%' writes them
OneDecimal ==
    { "0.0%", "1.0%", "1.5%", "10.0%", "15.0%", "20.0%", "25.0%", "30.0%",
      "60.0%", "85.0%", "100.0%" }

\* the digit that is left to the group of `discount.*(\d+(?:\.\d+)?)%' once
\* the greedy `.*' has taken all it can
LastDigit(word) ==
    IF word \in OneDecimal THEN ((PctValue[word] \div 10) % 10) * 100
    ELSE ((PctValue[word] \div 100) % 10) * 100

\* what float() makes of the first match of \$?([\d,]+(?:\.\d{2})?) when the
\* match lies in the given word; -1 stands for the ValueError of float("")
AmountValue ==
    [ word \in PctWords |-> PctValue[word] \div 100 ] @@
    ("60000" :> 60000) @@ ("terms," :> -1) @@ ("1." :> 1)

WarrantyWords == {"warranty", "warranties", "guarantee", "protection"}

SetMax(S) == CHOOSE x \in S : \A y \in S : y <= x
SetMin(S) == CHOOSE x \in S : \A y \in S : x <= y

\* position of the last word of the line that holds position i
LineEnd(t, i) ==
    SetMin({ e \in i..Len(t) : e = Len(t) \/ t[e + 1] = "NL" })

\* the positions after i, on i's line, that hold a word of S
LaterOnLine(t, i, S) == { j \in (i + 1)..LineEnd(t, i) : t[j] \in S }

\* position of the next word after i that is not a line break (0: none)
NextWord(t, i) ==
    LET J == { j \in (i + 1)..Len(t) : t[j] # "NL" }
    IN IF J = {} THEN 0 ELSE SetMin(J)

RECURSIVE Scan(_, _)
\* leftmost-first, non-overlapping matches from position i on, where a match
\* starting at position k ends at ends[k]
Scan(ends, i) ==
    IF i > Len(ends) THEN <<>>
    ELSE IF ends[i] = 0 THEN Scan(ends, i + 1)
    ELSE << [start |-> i, end |-> ends[i]] >> \o Scan(ends, ends[i] + 1)

\* re.finditer
finditer(ends) == Scan(ends, 1)

RECURSIVE SubFrom(_, _, _, _)
SubFrom(t, ends, repl, i) ==
    IF i > Len(t) THEN <<>>
    ELSE IF ends[i] = 0 THEN << t[i] >> \o SubFrom(t, ends, repl, i + 1)
    ELSE repl[i] \o SubFrom(t, ends, repl, ends[i] + 1)

\* re.sub: every match replaced by the words repl gives for its start
sub(t, ends, repl) == SubFrom(t, ends, repl, 1)

\* violation_patterns[ViolationType.PROHIBITED_CLAUSE]
ProhibitedPatterns ==
    << [kind |-> "pair", a |-> {"unlimited"}, b |-> "liability"],
       [kind |-> "word", a |-> {"indemnify", "indemnification"}, b |-> ""],
       [kind |-> "pair", a |-> {"hold"}, b |-> "harmless"],
       [kind |-> "span", a |-> {"waive"}, b |-> "rights"] >>

\* where a match of a prohibited-clause pattern that starts at i ends
PatternEnd(pat, t, i) ==
    IF t[i] \notin pat.a THEN 0
    ELSE IF pat.kind = "word" THEN i
    ELSE IF pat.kind = "pair"
         THEN (IF NextWord(t, i) # 0 /\ t[NextWord(t, i)] = pat.b
               THEN NextWord(t, i) ELSE 0)
    ELSE (IF LaterOnLine(t, i, {pat.b}) = {} THEN 0
          ELSE SetMax(LaterOnLine(t, i, {pat.b})))

PatternEnds(pat, t) == [ i \in 1..Len(t) |-> PatternEnd(pat, t, i) ]

\* (\d+(?:\.\d+)?)%.*discount|discount.*(\d+(?:\.\d+)?)% : a percentage with
\* a later "discount" on its line, else "discount" with a later percentage
DiscountEnd(t, i) ==
    IF t[i] \in PctWords /\ LaterOnLine(t, i, {"discount"}) # {}
    THEN SetMax(LaterOnLine(t, i, {"discount"}))
    ELSE IF t[i] = "discount" /\ LaterOnLine(t, i, PctWords) # {}
    THEN SetMax(LaterOnLine(t, i, PctWords))
    ELSE 0

DiscountEnds(t) == [ i \in 1..Len(t) |-> DiscountEnd(t, i) ]

\* match.group(1) or match.group(2), as a number
DiscountGroup(t, m) ==
    IF t[m.start] \in PctWords THEN PctValue[t[m.start]]
    ELSE LastDigit(t[m.end])

\* (\d+(?:\.\d+)?)%(\s*discount)
CapEnd(t, i) ==
    IF t[i] \in PctWords /\ NextWord(t, i) # 0 /\ t[NextWord(t, i)] = "discount"
    THEN NextWord(t, i) ELSE 0

(***************************************************************************)
(* GlobalPolicyCritic: detection                                           *)
(***************************************************************************)
\* PolicyViolation (description and location are left out)
PolicyViolation(violation_type, severity, auto_fixable, policy_reference) ==
    [violation_type |-> violation_type, severity |-> severity,
     auto_fixable |-> auto_fixable, policy_reference |-> policy_reference]

Repeat(v, n) == [ i \in 1..n |-> v ]

RECURSIVE Flatten(_)
Flatten(ss) == IF ss = <<>> THEN <<>> ELSE Head(ss) \o Flatten(Tail(ss))

_check_prohibited_clauses(output) ==
    Flatten([ k \in 1..Len(ProhibitedPatterns) |->
        Repeat(PolicyViolation("prohibited_clause", "HIGH", TRUE, "GPC-CLAUSE-001"),
               Len(finditer(PatternEnds(ProhibitedPatterns[k], output)))) ])

\* the discount the request states, else the first percentage of the text;
\* 0 stands for None (`if discount_pct and ...' treats both alike)
_extract_discount_percentage(output, request) ==
    IF request.has_target_discount_pct THEN request.target_discount_pct
    ELSE LET P == { i \in 1..Len(output) : output[i] \in PctWords }
         IN IF P = {} THEN 0 ELSE PctValue[output[SetMin(P)]]

warranty_mentioned(output) ==
    \E i \in 1..Len(output) : output[i] \in WarrantyWords

_check_missing_warranties(output, request) ==
    IF _extract_discount_percentage(output, request) > 1500
       /\ ~ warranty_mentioned(output)
    THEN << PolicyViolation("missing_warranty", "MEDIUM", TRUE, "GPC-WARRANTY-001") >>
    ELSE <<>>

_check_unauthorized_discounts(output) ==
    LET ms == finditer(DiscountEnds(output))
        over == SelectSeq(ms, LAMBDA m : DiscountGroup(output, m) > 2500)
    IN Repeat(PolicyViolation("unauthorized_discount", "HIGH", TRUE,
                              "GPC-DISCOUNT-001"), Len(over))

_get_budget_limit(category) ==
    CASE category = "software" -> 50000
      [] category = "hardware" -> 100000
      [] category = "services" -> 75000
      [] category = "consulting" -> 25000
      [] OTHER -> 0

_check_budget_compliance(output, request) ==
    LET A == { i \in 1..Len(output) : output[i] \in DOMAIN AmountValue }
        amount == IF A = {} THEN -1 ELSE AmountValue[output[SetMin(A)]]
    IN IF amount >= 0 /\ request.category # ""
          /\ _get_budget_limit(request.category) > 0
          /\ amount > _get_budget_limit(request.category)
       THEN << PolicyViolation("budget_exceeded", "CRITICAL", TRUE, "GPC-BUDGET-001") >>
       ELSE <<>>

\* the fields of a request payload the Ephemeral layer is drawn from
EphemeralContent(request) ==
    request.quotes \o request.budgets \o request.vendor_data
        \o request.api_responses

WithoutEphemeral(request) ==
    [request EXCEPT !.quotes = <<>>, !.budgets = <<>>, !.vendor_data = <<>>,
                    !.api_responses = <<>>]

\* the four sections the prompt is assembled from
_create_policy_analysis_prompt(gpc_context, dsc_context, output, request) ==
    [enterprise_policies |-> gpc_context, domain_strategy |-> dsc_context,
     original_request |-> request, agent_output |-> output]

\* The language model behind llm_client, as the list under "violations" of
\* the JSON it answers the prompt with.  It is a function of the prompt the
\* code does not fix: "fixed" answers every prompt alike, "reads_request"
\* reports its finding when the ORIGINAL REQUEST section shows vendor quotes
\* or tool responses, "unavailable" raises and _sync_llm_call substitutes
\* '{"violations": []}'.
_sync_llm_call(llm_client, prompt) ==
    CASE llm_client.mode = "fixed" -> llm_client.reply
      [] llm_client.mode = "reads_request" ->
            IF EphemeralContent(prompt.original_request) # <<>>
            THEN llm_client.reply ELSE <<>>
      [] llm_client.mode = "unavailable" -> <<>>

_map_violation_type(type_str) ==
    IF type_str \in {"budget_exceeded", "prohibited_clause", "missing_warranty",
                     "unauthorized_discount", "compliance_violation",
                     "security_risk", "approval_required", "invalid_terms"}
    THEN type_str ELSE "compliance_violation"

\* violation_data.get(key, default); "absent" is a key the answer leaves out
_parse_llm_violations(llm_response) ==
    [ i \in 1..Len(llm_response) |->
        PolicyViolation(
            _map_violation_type(llm_response[i].type),
            IF llm_response[i].severity = "absent" THEN "MEDIUM"
            ELSE llm_response[i].severity,
            llm_response[i].auto_fixable = "true",
            "LLM-ANALYSIS") ]

_llm_policy_analysis(critic, output, request) ==
    _parse_llm_violations(
        _sync_llm_call(critic.llm_client,
            _create_policy_analysis_prompt(critic.gpc_context,
                critic.dsc_context, output, request)))

_detect_violations(critic, output, request) ==
    _check_prohibited_clauses(output)
        \o _check_missing_warranties(output, request)
        \o _check_unauthorized_discounts(output)
        \o _check_budget_compliance(output, request)
        \o _llm_policy_analysis(critic, output, request)

(***************************************************************************)
(* GlobalPolicyCritic: decision, auto-revision, score                      *)
(***************************************************************************)
\* a critic that revises whenever some violation is auto-fixable
AnyFixableAction(violations) ==
    IF violations = <<>> THEN "APPROVED"
    ELSE IF \E i \in 1..Len(violations) : violations[i].auto_fixable
    THEN "AUTO_REVISED"
    ELSE "MANUAL_REVIEW_REQUIRED"

_determine_action(violations) ==
    LET auto_fixable_count ==
            Len(SelectSeq(violations, LAMBDA v : v.auto_fixable))
        critical_violations ==
            SelectSeq(violations, LAMBDA v : v.severity = "CRITICAL")
    IN IF violations = <<>> THEN "APPROVED"
       ELSE IF critical_violations # <<>>
               /\ ~ (\A i \in 1..Len(critical_violations) :
                        critical_violations[i].auto_fixable)
       THEN "MANUAL_REVIEW_REQUIRED"
       ELSE IF auto_fixable_count = Len(violations) THEN "AUTO_REVISED"
       ELSE "MANUAL_REVIEW_REQUIRED"

RemovedMarker == "[REMOVED: PROHIBITED CLAUSE]"

RECURSIVE RemovePatterns(_, _)
RemovePatterns(output, k) ==
    IF k > Len(ProhibitedPatterns) THEN output
    ELSE RemovePatterns(
             sub(output, PatternEnds(ProhibitedPatterns[k], output),
                 [ i \in 1..Len(output) |-> << RemovedMarker >> ]),
             k + 1)

_fix_prohibited_clause(output) == RemovePatterns(output, 1)

\* "\n\nWARRANTY: Vendor provides standard warranty coverage for all
\* deliverables as required for high-discount contracts."
WarrantyClause == << "NL", "NL", "warranty", "coverage", "discount", "contracts" >>

_add_warranty_clause(output) == output \o WarrantyClause

_fix_unauthorized_discount(output) ==
    sub(output, [ i \in 1..Len(output) |-> CapEnd(output, i) ],
        [ i \in 1..Len(output) |->
            IF CapEnd(output, i) = 0 THEN <<>>
            ELSE IF PctValue[output[i]] > 2500
            THEN << "25%" >> \o SubSeq(output, i + 1, CapEnd(output, i))
            ELSE SubSeq(output, i, CapEnd(output, i)) ])

\* "\n\nNOTE: Proposal adjusted to comply with budget limits."
BudgetNote == << "NL", "NL", "note", "budget", "limits" >>

_fix_budget_exceeded(output) == output \o BudgetNote

_apply_auto_fix(output, violation) ==
    CASE violation.violation_type = "prohibited_clause" ->
            _fix_prohibited_clause(output)
      [] violation.violation_type = "missing_warranty" ->
            _add_warranty_clause(output)
      [] violation.violation_type = "unauthorized_discount" ->
            _fix_unauthorized_discount(output)
      [] violation.violation_type = "budget_exceeded" ->
            _fix_budget_exceeded(output)
      [] OTHER -> output

RECURSIVE _auto_revise(_, _)
\* the revised text (the revision notes are left out)
_auto_revise(original_output, violations) ==
    IF violations = <<>> THEN original_output
    ELSE _auto_revise(
             IF Head(violations).auto_fixable
             THEN _apply_auto_fix(original_output, Head(violations))
             ELSE original_output,
             Tail(violations))

\* severity weights whose default for an unlisted severity is 0
SeverityWeightNoDefault(severity) ==
    CASE severity = "LOW" -> 1
      [] severity = "MEDIUM" -> 3
      [] severity = "HIGH" -> 6
      [] severity = "CRITICAL" -> 10
      [] OTHER -> 0

\* severity_weights.get(v.severity, 0.5), in tenths
SeverityWeight10(severity) ==
    CASE severity = "LOW" -> 1
      [] severity = "MEDIUM" -> 3
      [] severity = "HIGH" -> 6
      [] severity = "CRITICAL" -> 10
      [] OTHER -> 5

\* round(max(0.0, 1.0 - total_weight / len(violations)), 2), in hundredths.
\* The exact quotient is rounded half to even; on an exact tie (four
\* violations with an odd weight sum) the binary value may lie on either
\* side by one hundredth.
_calculate_compliance_score(violations) ==
    IF violations = <<>> THEN 100
    ELSE LET n == Len(violations)
             total_weight10 ==
                 SumSeq([ i \in 1..n |-> SeverityWeight10(violations[i].severity) ])
             num == Max(0, 100 * n - 10 * total_weight10)
             q == num \div n
             r == num % n
         IN IF 2 * r > n \/ (2 * r = n /\ q % 2 = 1) THEN q + 1 ELSE q

None == [present |-> FALSE, text |-> <<>>]
Some(text) == [present |-> TRUE, text |-> text]
\* truth value of an Optional[str]
Truthy(opt) == opt.present /\ opt.text # <<>>

validate_output(critic, agent_output, original_request) ==
    LET violations == _detect_violations(critic, agent_output, original_request)
        action_taken == _determine_action(violations)
    IN [original_output |-> agent_output,
        revised_output |->
            IF action_taken = "AUTO_REVISED" /\ critic.auto_revision_enabled
            THEN Some(_auto_revise(agent_output, violations))
            ELSE None,
        violations |-> violations,
        action_taken |-> action_taken,
        compliance_score |-> _calculate_compliance_score(violations)]

(***************************************************************************)
(* The places that derive a final status from a CriticResult               *)
(***************************************************************************)
\* AgentWorkflow._determine_compliance_status
_determine_compliance_status(critic_result) ==
    IF Len(critic_result.violations) = 0 THEN "COMPLIANT"
    ELSE IF critic_result.action_taken = "AUTO_REVISED" THEN "REVISED"
    ELSE IF critic_result.action_taken = "MANUAL_REVIEW_REQUIRED" THEN "FLAGGED"
    ELSE "NON_COMPLIANT"

\* GlobalPolicyCritic._determine_final_compliance_status
_determine_final_compliance_status(critic_result) ==
    IF critic_result.compliance_score >= 90 THEN "COMPLIANT"
    ELSE IF critic_result.action_taken = "MANUAL_REVIEW_REQUIRED"
    THEN "REQUIRES_REVIEW"
    ELSE "NON_COMPLIANT"

\* the compliance_status _build_agent_response puts in the AgentResponse
_build_agent_response(critic_result) ==
    IF Len(critic_result.violations) = 0 THEN "COMPLIANT"
    ELSE IF Truthy(critic_result.revised_output) THEN "REVISED"
    ELSE "FLAGGED"

(***************************************************************************)
(* Callers of the critic                                                   *)
(***************************************************************************)
\* phrases agent texts are made of: the ones long texts combine ...
CorePhrases ==
    { << "35%", "bulk", "discount" >>, << "40%", "discount" >>,
      << "waive", "10%", "rights" >>, << "warranty" >>, << "NL" >> }

\* ... and the ones that occur on their own
Phrases ==
    CorePhrases \cup
    { << "discount", "35%" >>, << "indemnify" >>, << "unlimited", "liability" >>,
      << "waive", "warranty", "rights" >>, << "60000" >>, << "terms,", "60000" >> }

RECURSIVE TextsOf(_, _)
\* the texts of at most n phrases
TextsOf(phrases, n) ==
    IF n = 0 THEN { <<>> }
    ELSE LET shorter == TextsOf(phrases, n - 1)
         IN shorter \cup { t \o p : t \in shorter, p \in phrases }

\* request payloads as execute_workflow hands them to validate_output: the
\* payload the agent was given, ephemeral fields included
CriticRequests ==
    { [category |-> c, has_target_discount_pct |-> d > 0,
       target_discount_pct |-> d, quotes |-> rq.quotes, budgets |-> rq.budgets,
       vendor_data |-> rq.vendor_data, api_responses |-> rq.api_responses] :
      c \in {"software", ""}, d \in {0, 2000}, rq \in InputRequests }

PlainRequest ==
    [category |-> "software", has_target_discount_pct |-> FALSE,
     target_discount_pct |-> 0, quotes |-> <<>>, budgets |-> <<>>,
     vendor_data |-> <<>>, api_responses |-> <<>>]

\* entries a language model puts under "violations"
ViolationData ==
    { [type |-> "compliance_violation", severity |-> "LOW", auto_fixable |-> "absent"],
      [type |-> "missing_warranty", severity |-> "LOW", auto_fixable |-> "true"],
      [type |-> "security_risk", severity |-> "CRITICAL", auto_fixable |-> "absent"],
      [type |-> "data_residency", severity |-> "URGENT", auto_fixable |-> "true"] }

RECURSIVE Replies(_)
Replies(n) ==
    IF n = 0 THEN { <<>> }
    ELSE Replies(n - 1) \cup
         { r \o << d >> : r \in Replies(n - 1), d \in ViolationData }

SilentLLM == [mode |-> "fixed", reply |-> <<>>]

LLMClients ==
    { [mode |-> "fixed", reply |-> r] : r \in Replies(MaxLLM) }
    \cup { [mode |-> "unavailable", reply |-> <<>>] }
    \cup { [mode |-> "reads_request", reply |-> << d >>] : d \in ViolationData }

\* GlobalPolicyCritic.__init__
GlobalPolicyCritic(llm_client, auto_revision_enabled) ==
    [llm_client |-> llm_client, gpc_context |-> "ENTERPRISE POLICIES",
     dsc_context |-> "", auto_revision_enabled |-> auto_revision_enabled]

\* a critic is constructed and an agent text arrives with its request
Submit ==
    /\ crit.pc = "idle"
    /\ \/ \E t \in TextsOf(CorePhrases, MaxPhrases) :
             crit' = [crit EXCEPT !.pc = "submitted",
                                  !.critic = GlobalPolicyCritic(SilentLLM, TRUE),
                                  !.agent_output = t,
                                  !.original_request = PlainRequest]
       \/ \E t \in TextsOf(Phrases, 1), rq \in CriticRequests,
             l \in LLMClients, a \in BOOLEAN :
             crit' = [crit EXCEPT !.pc = "submitted",
                                  !.critic = GlobalPolicyCritic(l, a),
                                  !.agent_output = t,
                                  !.original_request = rq]
    /\ UNCHANGED <<ctxVars, sysVars>>

\* critic.validate_output(agent_output, original_request)
ValidateOutput ==
    /\ crit.pc = "submitted"
    /\ crit' = [crit EXCEPT
                  !.pc = "validated",
                  !.prompt = _create_policy_analysis_prompt(
                                 crit.critic.gpc_context, crit.critic.dsc_context,
                                 crit.agent_output, crit.original_request),
                  !.result = validate_output(crit.critic, crit.agent_output,
                                             crit.original_request)]
    /\ UNCHANGED <<ctxVars, sysVars>>

\* the revised text is validated again with the same request
Revalidate ==
    /\ crit.pc = "validated"
    /\ crit.result.revised_output.present
    /\ crit' = [crit EXCEPT
                  !.pc = "revalidated",
                  !.recheck = _detect_violations(crit.critic,
                                  crit.result.revised_output.text,
                                  crit.original_request)]
    /\ UNCHANGED <<ctxVars, sysVars>>

\* AgentWorkflow.execute_workflow, step 3
DetermineComplianceStatus ==
    /\ crit.pc = "validated"
    /\ crit' = [crit EXCEPT !.pc = "reported", !.site = "workflow",
                  !.status = _determine_compliance_status(crit.result)]
    /\ UNCHANGED <<ctxVars, sysVars>>

\* GlobalPolicyCritic.generate_compliance_report
GenerateComplianceReport ==
    /\ crit.pc = "validated"
    /\ crit' = [crit EXCEPT !.pc = "reported", !.site = "report",
                  !.status = _determine_final_compliance_status(crit.result)]
    /\ UNCHANGED <<ctxVars, sysVars>>

\* the agent endpoints of the HTTP API
BuildAgentResponse ==
    /\ crit.pc = "validated"
    /\ crit' = [crit EXCEPT !.pc = "reported", !.site = "api",
                  !.status = _build_agent_response(crit.result)]
    /\ UNCHANGED <<ctxVars, sysVars>>

InitCritic == InitContext /\ total_budget = 1000 /\ crit = CritIdle /\ SysIdle

NextCritic ==
    \/ Submit
    \/ ValidateOutput
    \/ Revalidate
    \/ DetermineComplianceStatus
    \/ GenerateComplianceReport
    \/ BuildAgentResponse

SpecCritic == InitCritic /\ [][NextCritic]_vars

(***************************************************************************)
(* Properties of the critic                                                *)
(***************************************************************************)
CountKind(violations, kind) ==
    Len(SelectSeq(violations, LAMBDA v : v.violation_type = kind))

\* C6: validate_output decides alike for requests that differ only in
\* ephemeral content, and the prompt of the model-assisted pass carries no
\* ephemeral content (quotes, budgets, vendor_data, api_responses).
C6_CriticIsolation ==
    crit.pc = "validated" =>
        /\ EphemeralContent(crit.prompt.original_request) = <<>>
        /\ crit.result = validate_output(crit.critic, crit.agent_output,
                                         WithoutEphemeral(crit.original_request))

\* C7: the action of a result is APPROVED for no violations, AUTO_REVISED
\* when every violation is auto-fixable, MANUAL_REVIEW_REQUIRED otherwise.
C7_ActionOfViolations ==
    crit.pc \in {"validated", "revalidated", "reported"} =>
        crit.result.action_taken =
            IF crit.result.violations = <<>> THEN "APPROVED"
            ELSE IF \A i \in 1..Len(crit.result.violations) :
                       crit.result.violations[i].auto_fixable
            THEN "AUTO_REVISED"
            ELSE "MANUAL_REVIEW_REQUIRED"

\* a result with a CRITICAL violation that is not auto-fixable next to an
\* auto-fixable one, sent to manual review
C7_Witness ==
    /\ crit.pc = "validated"
    /\ \E i, j \in 1..Len(crit.result.violations) :
          /\ crit.result.violations[i].severity = "CRITICAL"
          /\ ~ crit.result.violations[i].auto_fixable
          /\ crit.result.violations[j].auto_fixable
    /\ crit.result.action_taken = "MANUAL_REVIEW_REQUIRED"

\* C8: after an auto-revision, the critic's own checks run on the revised
\* text (same request) report no unauthorized discount, no prohibited clause
\* and no missing warranty.
C8_RevisionClearsFixable ==
    crit.pc = "revalidated" =>
        \A i \in 1..Len(crit.recheck) :
            \/ crit.recheck[i].policy_reference = "LLM-ANALYSIS"
            \/ crit.recheck[i].violation_type \notin
                   {"unauthorized_discount", "prohibited_clause", "missing_warranty"}

\* C9: re-validating a revised text reports, for every kind of violation that
\* was present and auto-fixable in the original, no more violations of that
\* kind than the original had.
C9_RevisionMonotone ==
    crit.pc = "revalidated" =>
        \A i \in 1..Len(crit.result.violations) :
            crit.result.violations[i].auto_fixable =>
                CountKind(crit.recheck, crit.result.violations[i].violation_type)
                    <= CountKind(crit.result.violations,
                                 crit.result.violations[i].violation_type)

\* C10: wherever a final status is derived from a critic result, COMPLIANT
\* is given only to a result without violations.
C10_CompliantHasNoViolations ==
    (crit.pc = "reported" /\ crit.status = "COMPLIANT") =>
        crit.result.violations = <<>>

\* C11: the compliance score of a result lies in [0, 1] (0..100 hundredths)
\* and is 1.0 exactly when the result has no violations, whatever the
\* severities of the violations are.
C11_ScoreRange ==
    crit.pc \in {"validated", "revalidated", "reported"} =>
        /\ crit.result.compliance_score \in 0..100
        /\ (crit.result.compliance_score = 100) <=> (crit.result.violations = <<>>)

\* a scored result all of whose violations carry a severity outside
\* LOW/MEDIUM/HIGH/CRITICAL
C11_Witness ==
    /\ crit.pc = "validated"
    /\ crit.result.violations # <<>>
    /\ \A i \in 1..Len(crit.result.violations) :
          crit.result.violations[i].severity
              \notin {"LOW", "MEDIUM", "HIGH", "CRITICAL"}
    /\ crit.result.compliance_score = 50


(***************************************************************************)
(* Agent stage and AgentWorkflow                                           *)
(***************************************************************************)
AgentTypes == {"negotiation", "compliance", "forecast"}

\* the session data BaseAgent._build_context hands to build_context
EmptySession ==
    [conversation_turns |-> <<>>, tool_interactions |-> <<>>,
     session_findings |-> <<>>, user_preferences |-> <<>>, token_count |-> 0]

\* "Error processing {agent_type} request: {error_message}"
AgentErrorText == << "Error", "processing", "request:" >>

NoContextUsage == [gpc |-> 0, dsc |-> 0, tsc |-> 0, etc |-> 0, total |-> 0]

\* BaseAgent._build_error_response: context_usage is {}
_build_error_response(agent_type) ==
    [agent_response |-> AgentErrorText, compliance_status |-> "FLAGGED",
     context_usage |-> NoContextUsage]

\* BaseAgent._validate_request: reads request.agent_type, which a plain dict
\* does not have (AttributeError), then checks the type, the payload and the
\* session id
_validate_request(agent_type, request) ==
    IF request.form # "AgentRequest" THEN "raises"
    ELSE IF request.agent_type # agent_type THEN "invalid"
    ELSE IF ~ request.payload_valid THEN "invalid"
    ELSE IF request.session_id = "" THEN "invalid"
    ELSE "valid"

\* LayeredContext.get_layer_tokens of the context the agent builds
get_layer_tokens(c) ==
    [gpc |-> c.gpc.token_count, dsc |-> c.dsc.token_count,
     tsc |-> c.tsc.token_count, etc |-> c.etc.token_count,
     total |-> c.total_tokens]

\* BaseAgent._build_context: the payload's category and ephemeral fields
_build_context(agent_type, payload) ==
    build_context(LoadedPolicies, 1000, agent_type,
                  [category |-> payload.category, quotes |-> payload.quotes,
                   budgets |-> payload.budgets,
                   vendor_data |-> payload.vendor_data,
                   api_responses |-> payload.api_responses],
                  EmptySession).ctx

\* BaseAgent.process_request: every exception of the try block, the
\* ValueError of a rejected request included, ends in _build_error_response;
\* the method never raises.  generated is the text the agent produces.
process_request(agent_type, request, generated) ==
    IF _validate_request(agent_type, request) # "valid"
    THEN _build_error_response(agent_type)
    ELSE [agent_response |-> generated, compliance_status |-> "COMPLIANT",
          context_usage |->
              get_layer_tokens(_build_context(agent_type, request.payload))]

\* gp_critic.validate_output(original_request=request_data) calls
\* request.get(...), which an AgentRequest object does not have
CriticRaises(request_data) == request_data.form # "dict"

\* the critic of a running workflow: _sync_llm_call is entered from the
\* event loop, run_until_complete raises, and the language model pass
\* contributes nothing
WorkflowCritic ==
    GlobalPolicyCritic([mode |-> "unavailable", reply |-> <<>>], TRUE)

\* AgentWorkflow._collect_metrics; five policy checks are listed by
\* _get_policy_checks_performed
_collect_metrics(agent_time, critic_time, total_time, agent_response, critic_result) ==
    [agent_processing_time_ms |-> agent_time,
     critic_processing_time_ms |-> critic_time,
     total_processing_time_ms |-> total_time,
     context_tokens_used |-> agent_response.context_usage,
     policy_checks_performed |-> 5,
     violations_detected |-> Len(critic_result.violations),
     auto_revisions_applied |->
         IF Truthy(critic_result.revised_output) THEN 1 ELSE 0]

\* AgentWorkflow._update_statistics
_update_statistics(stats, critic_result) ==
    [stats EXCEPT
       !.total_violations = @ + Len(critic_result.violations),
       !.auto_revisions =
           IF Truthy(critic_result.revised_output) THEN @ + 1 ELSE @]

\* the WorkflowResult of the try block of execute_workflow
WorkflowSuccess(request_id, agent_type, timing, agent_response, critic_result) ==
    [request_id |-> request_id, agent_type |-> agent_type,
     final_output |->
         IF Truthy(critic_result.revised_output)
         THEN critic_result.revised_output.text
         ELSE agent_response.agent_response,
     compliance_status |-> _determine_compliance_status(critic_result),
     metrics |-> _collect_metrics(timing.agent, timing.critic, timing.total,
                                  agent_response, critic_result),
     success |-> TRUE, error_message |-> None]

\* the WorkflowResult of the except block of execute_workflow
WorkflowFailure(request_id, agent_type, timing) ==
    [request_id |-> request_id, agent_type |-> agent_type,
     final_output |-> <<>>, compliance_status |-> "ERROR",
     metrics |-> [agent_processing_time_ms |-> 0,
                  critic_processing_time_ms |-> 0,
                  total_processing_time_ms |-> timing.total,
                  context_tokens_used |-> NoContextUsage,
                  policy_checks_performed |-> 0,
                  violations_detected |-> 0,
                  auto_revisions_applied |-> 0],
     success |-> FALSE, error_message |-> Some(<< "AttributeError" >>)]

\* steps 3 to 6 of the try block, once the critic has answered
CollectAndCount(stats, request_id, agent_type, timing, agent_response, critic_result) ==
    [result |-> WorkflowSuccess(request_id, agent_type, timing,
                                agent_response, critic_result),
     workflow |-> [_update_statistics(stats, critic_result)
                   EXCEPT !.successful_requests = @ + 1]]

\* the try block once the agent has answered, and the except block
ValidateAndCollect(stats, agent_type, request_data, request_id, timing, agent_response) ==
    IF CriticRaises(request_data)
    THEN [result |-> WorkflowFailure(request_id, agent_type, timing),
          workflow |-> [stats EXCEPT !.failed_requests = @ + 1]]
    ELSE CollectAndCount(stats, request_id, agent_type, timing, agent_response,
             validate_output(WorkflowCritic, agent_response.agent_response,
                             request_data.payload))

\* AgentWorkflow.execute_workflow: the statistics after the call and the
\* WorkflowResult it returns
execute_workflow(stats, agent_type, request_data, request_id, timing, generated) ==
    ValidateAndCollect([stats EXCEPT !.total_requests = @ + 1],
                       agent_type, request_data, request_id, timing,
                       process_request(agent_type, request_data, generated))


(***************************************************************************)
(* IntegrationManager                                                      *)
(***************************************************************************)
max_recent_results == 100

RECURSIVE Gcd(_, _)
Gcd(a, b) == IF b = 0 THEN a ELSE Gcd(b, a % b)

\* the number num/den in lowest terms
Fraction(num, den) ==
    IF num = 0 THEN [num |-> 0, den |-> 1]
    ELSE [num |-> num \div Gcd(num, den), den |-> den \div Gcd(num, den)]

\* IntegrationManager._update_running_average
_update_running_average(current_avg, new_value, count) ==
    IF count <= 1 THEN Fraction(new_value, 1)
    ELSE Fraction(current_avg.num * (count - 1) + new_value * current_avg.den,
                  current_avg.den * count)

\* _update_metrics without its early return
NeverStops(result) == FALSE

\* the early return of _update_metrics
StopsAtFailure(result) == ~ result.success

\* a sample count that takes in the failed requests
AverageCountAll(metrics) == metrics.total_requests

\* the sample count _update_metrics hands to _update_running_average
AverageCount(metrics) == metrics.successful_requests

\* a count of requests that leaves the failed ones out of failed_requests
CountRequestDropsFailures(metrics, result) ==
    [metrics EXCEPT
       !.total_requests = @ + 1,
       !.successful_requests = IF result.success THEN @ + 1 ELSE @]

\* _update_metrics up to the success test
CountRequest(metrics, result) ==
    [metrics EXCEPT
       !.total_requests = @ + 1,
       !.successful_requests = IF result.success THEN @ + 1 ELSE @,
       !.failed_requests = IF result.success THEN @ ELSE @ + 1]

\* _update_metrics: per-agent counters and compliance metrics
CountCompliance(metrics, result) ==
    [metrics EXCEPT
       !.negotiation_requests =
           IF result.agent_type = "negotiation" THEN @ + 1 ELSE @,
       !.compliance_requests =
           IF result.agent_type = "compliance" THEN @ + 1 ELSE @,
       !.forecast_requests =
           IF result.agent_type = "forecast" THEN @ + 1 ELSE @,
       !.compliance_violations = @ + result.metrics.violations_detected,
       !.auto_revisions = @ + result.metrics.auto_revisions_applied,
       !.manual_reviews_required =
           IF result.compliance_status = "FLAGGED" THEN @ + 1 ELSE @]

\* _update_metrics: running averages and context usage
FoldPerformance(metrics, result, total) ==
    [metrics EXCEPT
       !.average_processing_time_ms =
           _update_running_average(@, result.metrics.total_processing_time_ms, total),
       !.average_agent_time_ms =
           _update_running_average(@, result.metrics.agent_processing_time_ms, total),
       !.average_critic_time_ms =
           _update_running_average(@, result.metrics.critic_processing_time_ms, total),
       !.total_tokens_used =
           @ + result.metrics.context_tokens_used.gpc
             + result.metrics.context_tokens_used.dsc
             + result.metrics.context_tokens_used.tsc
             + result.metrics.context_tokens_used.etc
             + result.metrics.context_tokens_used.total,
       !.gpc_tokens_used = @ + result.metrics.context_tokens_used.gpc,
       !.dsc_tokens_used = @ + result.metrics.context_tokens_used.dsc]

\* _update_metrics after the success test
CountSuccess(metrics, result) ==
    FoldPerformance(CountCompliance(metrics, result), result,
                    AverageCount(metrics))

\* IntegrationManager._update_metrics
_update_metrics(metrics, result) ==
    IF StopsAtFailure(result) THEN CountRequest(metrics, result)
    ELSE CountSuccess(CountRequest(metrics, result), result)

\* _store_recent_result with the trim at the wrong end
_store_recent_resultKeepsOldest(recent_results, result) ==
    Take(Append(recent_results, result), max_recent_results)

\* IntegrationManager._store_recent_result
_store_recent_result(recent_results, result) ==
    IF Len(recent_results) + 1 > max_recent_results
    THEN LastK(Append(recent_results, result), max_recent_results)
    ELSE Append(recent_results, result)


\* set in IntegrationManager.__init__ and never changed
enable_metrics_collection == TRUE

\* a process_request that suspends between its two updates
YieldsBetweenUpdates(point) == point = "counted"

\* Whether the coroutine of process_request hands control back to the event
\* loop at a point of its body.  "worked" is the return of the awaited
\* execute_workflow, whose body has no await, so the await completes without
\* suspending; "counted" lies between _update_metrics and
\* _store_recent_result, two plain calls.  asyncio switches tasks only at a
\* suspending await, and the manager is driven from one event loop.
Yields(point) == FALSE

\* process_request from its start to the end of execute_workflow
StepWorkflow(m, t, r) ==
    [m |-> [m EXCEPT !.workflow = r.workflow],
     t |-> [t EXCEPT !.pos = "worked", !.result = << r.result >>],
     stop |-> Yields("worked")]

\* process_request: if self.enable_metrics_collection: _update_metrics
StepMetrics(m, t) ==
    [m |-> IF enable_metrics_collection
           THEN [m EXCEPT
                   !.metrics = _update_metrics(@, t.result[1]),
                   !.folded = IF t.result[1].success
                              THEN Append(@, t.result[1].metrics) ELSE @]
           ELSE m,
     t |-> [t EXCEPT !.pos = "counted", !.before = << m.metrics >>],
     stop |-> Yields("counted")]

\* process_request: _store_recent_result, logging and return
StepStore(m, t) ==
    [m |-> [m EXCEPT
              !.recent_results = _store_recent_result(@, t.result[1]),
              !.stored = Append(@, t.result[1].request_id)],
     t |-> [t EXCEPT !.pos = "returned"],
     stop |-> TRUE]

\* one stretch of the coroutine, unless it has suspended or returned
Advance(s) ==
    IF s.stop THEN s
    ELSE CASE s.t.pos = "start" ->
                StepWorkflow(s.m, s.t,
                    execute_workflow(s.m.workflow, s.t.agent_type,
                        s.t.request_data, s.t.request_id, s.t.timing,
                        s.t.generated))
           [] s.t.pos = "worked" -> StepMetrics(s.m, s.t)
           [] s.t.pos = "counted" -> StepStore(s.m, s.t)

\* the coroutine runs from where it stands to its next suspension or its end
RunToYield(m, t) ==
    Advance(Advance(Advance([m |-> m, t |-> t, stop |-> FALSE])))

\* IntegrationManager.reset_metrics, with AgentWorkflow.reset_statistics
reset_metrics(m) ==
    [m EXCEPT !.metrics = IntegrationMetrics, !.recent_results = <<>>,
              !.workflow = WorkflowStatistics,
              !.stored = <<>>, !.folded = <<>>, !.resets = @ + 1]

\* IntegrationManager.get_recent_results(limit)
get_recent_results(recent_results, limit) ==
    IF limit > 0 THEN LastK(recent_results, limit) ELSE recent_results

CountStatus(results, status) ==
    Len(SelectSeq(results, LAMBDA r : r.compliance_status = status))

\* IntegrationManager.get_compliance_report when every buffered result is
\* younger than the cutoff
get_compliance_report(recent_results) ==
    IF recent_results = <<>> THEN [available |-> FALSE, total_requests |-> 0,
                                   compliant |-> 0, revised |-> 0, flagged |-> 0]
    ELSE [available |-> TRUE, total_requests |-> Len(recent_results),
          compliant |-> CountStatus(recent_results, "COMPLIANT"),
          revised |-> CountStatus(recent_results, "REVISED"),
          flagged |-> CountStatus(recent_results, "FLAGGED")]

(***************************************************************************)
(* Callers of the Integration Manager and of the agent endpoints           *)
(***************************************************************************)
\* process_request calls issued in one run
MaxRequests == 3
\* process_request coroutines created and not yet finished
MaxTasks == 2
MaxResets == 1

\* measured times of a workflow, in ms
Timings ==
    { [agent |-> 10, critic |-> 5, total |-> 20],
      [agent |-> 20, critic |-> 10, total |-> 35] }

DiscountRequest ==
    [PlainRequest EXCEPT !.has_target_discount_pct = TRUE,
                         !.target_discount_pct = 2000]

\* request_data handed to process_request: the dict its signature asks for,
\* or the AgentRequest the agents take, with a payload the agent accepts or
\* rejects
WorkflowRequests(agent_type) ==
    { [form |-> "dict", agent_type |-> "", payload_valid |-> FALSE,
       session_id |-> "", payload |-> p] :
      p \in {PlainRequest, DiscountRequest} }
    \cup
    { [form |-> "AgentRequest", agent_type |-> agent_type,
       payload_valid |-> v, session_id |-> "s1", payload |-> PlainRequest] :
      v \in BOOLEAN }

\* the text a successful agent produces
AgentTexts == { << "warranty" >>, << "40%", "discount" >> }

NextRequestId == im.issued + 1

\* the agent types the callers of process_request ask for
CalledAgents == {"negotiation", "forecast"}

\* a caller (process_batch_requests or a caller of its own) creates the
\* coroutine of process_request; an unsupported agent_type raises ValueError
\* before anything is touched and is left out
CallProcessRequest ==
    /\ im.issued < MaxRequests
    /\ Cardinality(im.tasks) < MaxTasks
    /\ \E a \in CalledAgents, tm \in Timings :
         \E rd \in WorkflowRequests(a) :
           im' = [im EXCEPT
                    !.issued = @ + 1,
                    !.tasks = @ \cup
                       { [request_id |-> NextRequestId, agent_type |-> a,
                          request_data |-> rd, timing |-> tm,
                          generated |-> << "warranty" >>,
                          pos |-> "start", result |-> <<>>, before |-> <<>>] }]
    /\ UNCHANGED <<ctxVars, crit, api, pol, neg, fc, client>>

\* what the caller of process_request holds when it has returned
Returned(t) ==
    [present |-> TRUE, agent_type |-> t.agent_type,
     request_data |-> t.request_data, generated |-> t.generated,
     result |-> t.result[1], before |-> t.before[1]]

\* the coroutine has suspended again, or has returned to its caller
Settle(s, t) ==
    IF s.t.pos = "returned"
    THEN [s.m EXCEPT !.tasks = @ \ {t}, !.last = Returned(s.t)]
    ELSE [s.m EXCEPT !.tasks = (@ \ {t}) \cup {s.t}]

\* the event loop runs one of the coroutines up to its next suspension
RunTask ==
    /\ \E t \in im.tasks : im' = Settle(RunToYield(im, t), t)
    /\ UNCHANGED <<ctxVars, crit, api, pol, neg, fc, client>>

\* POST /integration/reset-metrics
ResetMetrics ==
    /\ im.resets < MaxResets
    /\ im' = reset_metrics(im)
    /\ UNCHANGED <<ctxVars, crit, api, pol, neg, fc, client>>

InitIntegration == InitCritic

NextIntegration ==
    \/ CallProcessRequest
    \/ RunTask
    \/ ResetMetrics

SpecIntegration == InitIntegration /\ [][NextIntegration]_vars

(***************************************************************************)
(* The HTTP API                                                            *)
(***************************************************************************)
\* requests a client sends to the agent endpoints in one run
MaxServed == 10

\* request.model_dump() of a NegotiationRequest asking for 20%: the validator
\* has turned the discount into the fraction 0.20
DumpedRequest ==
    [PlainRequest EXCEPT !.has_target_discount_pct = TRUE,
                         !.target_discount_pct = 20]

\* _build_agent_response of the API: the response of an agent endpoint
ApiResponse(request_id, agent_type, critic_result) ==
    [request_id |-> request_id, agent_type |-> agent_type,
     compliance_status |-> _build_agent_response(critic_result)]

\* the handler of an agent endpoint: it builds an AgentRequest, calls the
\* agent, then the critic with request.model_dump(), and answers
agent_endpoint(request_id, agent_type, payload, payload_valid, generated) ==
    ApiResponse(request_id, agent_type,
        validate_output(WorkflowCritic,
            process_request(agent_type,
                [form |-> "AgentRequest", agent_type |-> agent_type,
                 payload_valid |-> payload_valid, session_id |-> "s1",
                 payload |-> payload], generated).agent_response,
            payload))

\* POST /agent/negotiation, /agent/compliance, /agent/forecast with the
\* track_requests middleware and _update_agent_stats
ServeAgentEndpoint ==
    /\ api.answered < MaxServed
    /\ \E a \in AgentTypes, g \in AgentTexts, v \in BOOLEAN :
         api' = [api EXCEPT
                   !.request_count = @ + 1,
                   !.agent_stats[a] = @ + 1,
                   !.answered = @ + 1,
                   !.response = agent_endpoint(api.answered + 1, a,
                                            DumpedRequest, v, g)]
    /\ UNCHANGED <<ctxVars, crit, im, pol, neg, fc, client>>

\* GET /integration/compliance-report?hours=1 with the track_requests
\* middleware
GetComplianceReport ==
    /\ ~ api.report.fetched
    /\ api' = [api EXCEPT
                 !.request_count = @ + 1,
                 !.report = [fetched |-> TRUE,
                             after |-> api.answered,
                             body |-> get_compliance_report(im.recent_results)]]
    /\ UNCHANGED <<ctxVars, crit, im, pol, neg, fc, client>>

InitApi == InitCritic

NextApi ==
    \/ ServeAgentEndpoint
    \/ GetComplianceReport

SpecApi == InitApi /\ [][NextApi]_vars

(***************************************************************************)
(* Properties of the workflow and the Integration Manager                  *)
(***************************************************************************)
\* the agent stage of a call failed: the agent answered with its error
\* response
AgentStageFailed(call) ==
    _validate_request(call.agent_type, call.request_data) # "valid"

\* C12: whenever the agent stage of a workflow fails, execute_workflow
\* returns a failed result: success = false, compliance_status ERROR and an
\* error_message; it never returns success = true for such a request.
C12_AgentFailureIsError ==
    (im.last.present /\ AgentStageFailed(im.last)) =>
        /\ ~ im.last.result.success
        /\ im.last.result.compliance_status = "ERROR"
        /\ im.last.result.error_message.present


\* process_request has just returned a failed result to its caller
FailedResultRecorded ==
    /\ im'.last # im.last
    /\ im'.last.present
    /\ ~ im'.last.result.success

\* C13: when the Integration Manager records a failed workflow result, only
\* total_requests and failed_requests change, each by exactly 1; every other
\* counter, the three running averages and the token totals stay as they
\* were.
C13_FailureTouchesTwoCounters ==
    [][FailedResultRecorded =>
          im'.metrics = [im.metrics EXCEPT !.total_requests = @ + 1,
                                           !.failed_requests = @ + 1]]_vars

\* a failed result has been recorded after a revised successful one
C13_Witness ==
    /\ im.last.present
    /\ ~ im.last.result.success
    /\ im.metrics.failed_requests = 1
    /\ im.metrics.total_requests = 2
    /\ im.metrics.auto_revisions = 1
    /\ im.metrics = [im.last.before EXCEPT !.total_requests = @ + 1,
                                           !.failed_requests = @ + 1]


\* C14: every request served by POST /agent/negotiation, /agent/compliance
\* or /agent/forecast passes through the Integration Manager before its
\* response is returned: it is counted in the manager's counters, its result
\* is in the rolling buffer, and a compliance report fetched after n such
\* requests (n = 10 included) covers n requests.
C14_ServedRequestsAreRecorded ==
    /\ im.metrics.total_requests >= api.answered
    /\ Len(im.recent_results) >= Min(api.answered, max_recent_results)
    /\ api.report.fetched =>
          /\ api.report.after > 0 => api.report.body.available
          /\ api.report.body.total_requests >= api.report.after


\* request ids of a list of results
RequestIds(results) == [ i \in 1..Len(results) |-> results[i].request_id ]

\* C15: with several process_request coroutines in flight, the counter
\* increments of a request and its insertion into the rolling buffer take
\* effect together.  In every state a reader can run in, each workflow
\* executed since the last reset is counted once (no increment is lost),
\* every counted result is buffered, and the metrics record is whole:
\* total = successful + failed.  This rests on the scheduling of asyncio
\* (one event loop, tasks switch only at a suspending await) and on
\* process_request having no such await.
C15_UpdatesAreAtomic ==
    /\ im.metrics.total_requests = im.workflow.total_requests
    /\ im.metrics.total_requests = Len(im.stored)
    /\ RequestIds(get_recent_results(im.recent_results, 0))
          = LastK(im.stored, max_recent_results)
    /\ im.metrics.total_requests
          = im.metrics.successful_requests + im.metrics.failed_requests
    /\ im.metrics.successful_requests = Len(im.folded)

\* two coroutines were in flight together and finished in the order
\* opposite to their creation, while a third is waiting
C15_Witness ==
    /\ im.stored = << 2, 1 >>
    /\ im.metrics.total_requests = 2
    /\ Cardinality(im.tasks) = 1

\* the exact arithmetic mean of a list of timings
Mean(samples) ==
    IF samples = <<>> THEN NoAverage
    ELSE Fraction(SumSeq(samples), Len(samples))

\* C17: each of the three running averages equals the exact arithmetic mean
\* of the corresponding timings of the successful results folded into it
\* since startup or the last reset, also when failed requests are recorded
\* in between.
C17_RunningAverageIsMean ==
    /\ im.metrics.average_processing_time_ms =
          Mean([ i \in 1..Len(im.folded) |-> im.folded[i].total_processing_time_ms ])
    /\ im.metrics.average_agent_time_ms =
          Mean([ i \in 1..Len(im.folded) |-> im.folded[i].agent_processing_time_ms ])
    /\ im.metrics.average_critic_time_ms =
          Mean([ i \in 1..Len(im.folded) |-> im.folded[i].critic_processing_time_ms ])

\* two different samples were folded with a failed request recorded between
\* them
C17_Witness ==
    /\ Len(im.recent_results) = 3
    /\ im.recent_results[1].success
    /\ ~ im.recent_results[2].success
    /\ im.recent_results[3].success
    /\ im.recent_results[1].metrics.total_processing_time_ms
          # im.recent_results[3].metrics.total_processing_time_ms
    /\ im.metrics.average_processing_time_ms = [num |-> 55, den |-> 2]


(***************************************************************************)
(* The rolling buffer over a long run                                      *)
(***************************************************************************)
\* process_request calls of a long run
MaxStored == 103

\* the coroutine of the n-th call of a caller that awaits each call
NthCall(n, agent_type, timing) ==
    [request_id |-> n, agent_type |-> agent_type,
     request_data |-> [form |-> "dict", agent_type |-> "",
                       payload_valid |-> FALSE, session_id |-> "",
                       payload |-> PlainRequest],
     timing |-> timing, generated |-> << "warranty" >>,
     pos |-> "start", result |-> <<>>, before |-> <<>>]

\* await manager.process_request(...): the call runs to its end
AwaitProcessRequest ==
    /\ im.issued < MaxStored
    /\ \E t \in { NthCall(NextRequestId, "negotiation",
                           [agent |-> 10, critic |-> 5, total |-> 20]) } :
         im' = [Settle(RunToYield(im, t), t) EXCEPT !.issued = @ + 1]
    /\ UNCHANGED <<ctxVars, crit, api, pol, neg, fc, client>>

\* reset_metrics between two calls
ResetBuffer ==
    /\ im.resets < MaxResets
    /\ im' = reset_metrics(im)
    /\ UNCHANGED <<ctxVars, crit, api, pol, neg, fc, client>>

InitBuffer == InitCritic

NextBuffer ==
    \/ AwaitProcessRequest
    \/ ResetBuffer

SpecBuffer == InitBuffer /\ [][NextBuffer]_vars

\* C16: after any sequence of process_request and reset_metrics operations
\* the recent_results buffer holds at most 100 entries, and they are the
\* most recently stored results in arrival order: when the buffer is full
\* the oldest entry is the one evicted.
C16_BufferIsLastHundred ==
    /\ Len(im.recent_results) <= 100
    /\ RequestIds(im.recent_results) = LastK(im.stored, 100)

\* more than 100 results were stored and the oldest ones are gone
C16_Witness ==
    /\ Len(im.stored) = 103
    /\ Len(im.recent_results) = 100
    /\ im.recent_results[1].request_id = 4
    /\ im.recent_results[100].request_id = 103


(***************************************************************************)
(* Policy Store: reload and readers                                        *)
(***************************************************************************)
\* reload_policies calls of one run
MaxReloads == 2

\* prohibited_clauses_list of the Settings at the time of a load: the three
\* default clauses, or the list after a clause was added to the
\* configuration
SettingsClauses ==
    { LoadedPolicies.prohibited_clauses,
      Append(LoadedPolicies.prohibited_clauses, PolicyText(2, 0)) }

\* _load_policies, lines 36-59: the new GlobalPolicyContext is built and
\* bound to self._gpc_context; token_count is the dataclass default
NewPolicyContext(prohibited_clauses) ==
    [LoadedPolicies EXCEPT !.prohibited_clauses = prohibited_clauses,
                           !.token_count = 0]

\* GlobalPolicyContext.calculate_tokens
calculate_tokens(gpc) == [gpc EXCEPT !.token_count = GpcTokens(gpc)]

\* what a reader returns, with the generations of the parts it has read
Observation(reader, reads, context) ==
    [present |-> TRUE, reader |-> reader, reads |-> reads,
     context |-> context,
     context_generation |-> pol.context_generation,
     rules_generation |-> pol.rules_generation]

\* reload_policies -> _load_policies: self._gpc_context = GlobalPolicyContext(...)
ReloadAssign ==
    /\ pol.writer = "idle"
    /\ pol.loads < MaxReloads
    /\ \E clauses \in SettingsClauses :
         gpc_store' = NewPolicyContext(clauses)
    /\ pol' = [pol EXCEPT !.writer = "assigned", !.loads = @ + 1,
                          !.context_generation = pol.loads + 1]
    /\ UNCHANGED <<asmVars, crit, im, api, neg, fc, client>>

\* _load_policies: self._gpc_context.calculate_tokens()
ReloadCount ==
    /\ pol.writer = "assigned"
    /\ gpc_store' = calculate_tokens(gpc_store)
    /\ pol' = [pol EXCEPT !.writer = "counted"]
    /\ UNCHANGED <<asmVars, crit, im, api, neg, fc, client>>

\* _load_policies: self._compliance_rules = self._load_compliance_rules()
ReloadRules ==
    /\ pol.writer = "counted"
    /\ pol' = [pol EXCEPT !.writer = "idle",
                          !.rules_generation = pol.context_generation]
    /\ UNCHANGED <<ctxVars, crit, im, api, neg, fc, client>>

\* a reader thread calls get_gpc_context
GetGpcContext ==
    /\ pol' = [pol EXCEPT !.seen =
                 Observation("get_gpc_context", {"context"},
                             get_gpc_context(gpc_store))]
    /\ UNCHANGED <<ctxVars, crit, im, api, neg, fc, client>>

\* a reader thread calls get_policy_summary, which reads the context and
\* the rules
GetPolicySummary ==
    /\ pol' = [pol EXCEPT !.seen =
                 Observation("get_policy_summary", {"context", "rules"},
                             gpc_store)]
    /\ UNCHANGED <<ctxVars, crit, im, api, neg, fc, client>>

\* a reader thread calls get_compliance_rules
GetComplianceRules ==
    /\ pol' = [pol EXCEPT !.seen =
                 Observation("get_compliance_rules", {"rules"}, EmptyGPC)]
    /\ UNCHANGED <<ctxVars, crit, im, api, neg, fc, client>>

InitPolicy == InitCritic

NextPolicy ==
    \/ ReloadAssign
    \/ ReloadCount
    \/ ReloadRules
    \/ GetGpcContext
    \/ GetPolicySummary
    \/ GetComplianceRules

SpecPolicy == InitPolicy /\ [][NextPolicy]_vars

\* C18: while reload_policies runs concurrently with readers, every reader
\* observes the complete old snapshot or the complete new one: never a
\* policy context whose token_count has not been computed for its contents,
\* and never new policies paired with the old compliance rules.
C18_ReadersSeeWholeSnapshot ==
    pol.seen.present =>
        /\ "context" \in pol.seen.reads =>
              pol.seen.context.token_count = GpcTokens(pol.seen.context)
        /\ pol.seen.reads = {"context", "rules"} =>
              pol.seen.context_generation = pol.seen.rules_generation


(***************************************************************************)
(* Negotiation: discount normalization and automatic warranties            *)
(* Discounts are in units of 0.0001: 10000 is 1.0 (100%), 1500 is 0.15     *)
(***************************************************************************)
aggressive_discount_threshold == 1500
high_risk_discount_threshold == 2500

\* a validator that converts whatever it is given
validate_discountAlwaysDivides(v) ==
    IF v < 0 \/ v > 100 * 10000 THEN [ok |-> FALSE, value |-> v]
    ELSE [ok |-> TRUE, value |-> v \div 100]

\* api/models.py, NegotiationRequest.target_discount_pct: Field(ge=0, le=100)
\* and validate_discount: v / 100.0 if v > 1 else v
validate_discount(v) ==
    IF v < 0 \/ v > 100 * 10000 THEN [ok |-> FALSE, value |-> v]
    ELSE [ok |-> TRUE, value |-> IF v > 10000 THEN v \div 100 ELSE v]

\* NegotiationAgent._validate_request_payload: the discount must be a number
\* >= 0, is divided by 100 when above 1 and refused when still above 1; the
\* vendor and the category must be non-empty
strip(text) == IF text = " " THEN "" ELSE text

_validate_request_payload(payload) ==
    IF payload.target_discount_pct < 0
    THEN [ok |-> FALSE, value |-> payload.target_discount_pct]
    ELSE IF payload.target_discount_pct > 10000
            /\ payload.target_discount_pct \div 100 > 10000
    THEN [ok |-> FALSE, value |-> payload.target_discount_pct \div 100]
    ELSE [ok |-> strip(payload.vendor) # "" /\ strip(payload.category) # "",
          value |-> IF payload.target_discount_pct > 10000
                    THEN payload.target_discount_pct \div 100
                    ELSE payload.target_discount_pct]

\* the normalization a discount undergoes on its way to the agent's logic:
\* through the API model and the agent, or through the agent alone
Normalization(entry, payload) ==
    IF entry = "agent" THEN _validate_request_payload(payload)
    ELSE IF ~ validate_discount(payload.target_discount_pct).ok
    THEN validate_discount(payload.target_discount_pct)
    ELSE _validate_request_payload(
             [payload EXCEPT !.target_discount_pct =
                  validate_discount(payload.target_discount_pct).value])

StandardWarranties ==
    << "Extended warranty period (minimum 24 months)",
       "Performance guarantee with SLA commitments",
       "Quality assurance and defect remediation" >>

AggressiveWarranties ==
    << "Financial stability guarantee or insurance",
       "Delivery guarantee with penalty clauses",
       "Intellectual property indemnification" >>

\* NegotiationAgent._get_category_warranties
_get_category_warranties(category) ==
    CASE category = "software" ->
           << "Software maintenance and updates guarantee",
              "Data migration and integration support",
              "User training and documentation" >>
      [] category = "hardware" ->
           << "Hardware replacement guarantee", "On-site technical support",
              "Preventive maintenance program" >>
      [] category = "services" ->
           << "Service level agreement (SLA) guarantees",
              "Resource availability commitments",
              "Escalation and resolution procedures" >>
      [] OTHER -> <<>>

\* NegotiationAgent._parse_llm_response on the text _call_llm_sync returns:
\* five contract terms, five risk items, no warranties
_parse_llm_response ==
    [pricing_proposal |-> "Negotiate competitive pricing with volume discounts",
     negotiation_strategy |-> "Lead with competitive market analysis",
     contract_terms |-> << "Net 30 payment terms",
                           "Performance-based service level agreements",
                           "Quarterly business reviews",
                           "Flexible scaling options",
                           "Standard termination clause" >>,
     warranty_requirements |-> <<>>,
     risk_mitigation |-> << "credit checks", "Reference validation",
                            "Pilot program", "Escrow arrangement",
                            "Regular performance monitoring" >>,
     confidence_score |-> 85]

\* NegotiationAgent._generate_fallback_result
_generate_fallback_result ==
    [pricing_proposal |-> "Negotiate {discount:.1%} discount with {vendor}",
     negotiation_strategy |-> "Competitive benchmarking with market rate analysis",
     contract_terms |-> << "Standard payment terms (Net 30)",
                           "Delivery within agreed timeframe",
                           "Quality standards compliance",
                           "Termination clause with 30-day notice" >>,
     warranty_requirements |-> <<>>,
     risk_mitigation |-> << "Vendor financial stability verification",
                            "Reference checks with existing customers",
                            "Pilot program before full commitment" >>,
     confidence_score |-> 60]

\* the warranties _add_automatic_warranties collects for a discount
AutomaticWarranties(discount, category) ==
    (IF discount >= aggressive_discount_threshold
     THEN StandardWarranties ELSE <<>>)
    \o (IF discount >= high_risk_discount_threshold
        THEN AggressiveWarranties ELSE <<>>)
    \o _get_category_warranties(category)

\* NegotiationAgent._add_automatic_warranties
_add_automatic_warranties(result, discount, category) ==
    IF discount >= aggressive_discount_threshold
    THEN [result EXCEPT
            !.warranty_requirements = @ \o AutomaticWarranties(discount, category),
            !.contract_terms =
                Append(@, "Enhanced warranty requirements due to {discount:.1%} discount target"),
            !.risk_mitigation =
                Append(@, "Mitigate {discount:.1%} discount risk through comprehensive warranties")]
    ELSE result

\* NegotiationAgent._generate_negotiation_result; llm tells whether the call
\* of the language model answers or raises
_generate_negotiation_result(discount, category, llm) ==
    IF llm = "raises" THEN _generate_fallback_result
    ELSE _add_automatic_warranties(_parse_llm_response, discount, category)

\* discounts a client sends
DiscountInputs ==
    { -10000, 0, 1000, 1499, 1500, 2499, 2500, 3000, 10000, 10100, 15000,
      150000, 250000, 300000, 1000000, 1000100, 1500000 }

NegotiationPayload(vendor, d, category) ==
    [vendor |-> vendor, target_discount_pct |-> d, category |-> category]

\* the record of a negotiation request on its way
Negotiation(at, entry, payload, value) ==
    [pc |-> at, entry |-> entry, input |-> payload.target_discount_pct,
     vendor |-> payload.vendor, category |-> payload.category, value |-> value]

\* the payload dict as it is now: vendor, category and the discount as the
\* validations have left it
PayloadOf(n) ==
    [vendor |-> n.vendor, target_discount_pct |-> n.value, category |-> n.category]

\* vendor names a client sends: a name, and a blank (min_length=1 admits it)
Vendors == {"Acme", " "}

\* POST /agent/negotiation: the request model validates the body
PostNegotiation ==
    /\ neg.pc = "idle"
    /\ \E d \in DiscountInputs, c \in {"software", "office"}, v \in Vendors :
         neg' = Negotiation(
                    IF validate_discount(d).ok THEN "posted" ELSE "rejected",
                    "api", NegotiationPayload(v, d, c), validate_discount(d).value)
    /\ UNCHANGED <<ctxVars, crit, im, api, pol, fc, client>>

\* a caller hands a payload to the agent without the API model
SubmitToAgent ==
    /\ neg.pc = "idle"
    /\ \E d \in DiscountInputs, c \in {"software", "office"}, v \in Vendors :
         neg' = Negotiation("posted", "agent", NegotiationPayload(v, d, c), d)
    /\ UNCHANGED <<ctxVars, crit, im, api, pol, fc, client>>

\* BaseAgent._validate_request -> _validate_request_payload
ValidatePayload ==
    /\ neg.pc = "posted"
    /\ neg' = [neg EXCEPT
                 !.pc = IF _validate_request_payload(PayloadOf(neg)).ok
                        THEN "accepted" ELSE "rejected",
                 !.value = _validate_request_payload(PayloadOf(neg)).value]
    /\ UNCHANGED <<ctxVars, crit, im, api, pol, fc, client>>

\* _process_agent_request: the result the response is formatted from
GenerateResult ==
    /\ neg.pc = "accepted"
    /\ \E llm \in {"answers", "raises"} :
         neg' = [pc |-> "answered", entry |-> neg.entry, input |-> neg.input,
                 vendor |-> neg.vendor,
                 category |-> neg.category, value |-> neg.value, llm |-> llm,
                 result |-> _generate_negotiation_result(neg.value,
                                neg.category, llm)]
    /\ UNCHANGED <<ctxVars, crit, im, api, pol, fc, client>>

\* the normalized discount is sent again the way the original came
Renormalize ==
    /\ neg.pc = "accepted"
    /\ neg' = [pc |-> "renormalized", entry |-> neg.entry, input |-> neg.input,
               vendor |-> neg.vendor,
               category |-> neg.category, value |-> neg.value,
               again |-> Normalization(neg.entry, PayloadOf(neg))]
    /\ UNCHANGED <<ctxVars, crit, im, api, pol, fc, client>>

\* '{x:.1%}' of a result's confidence and of a discount: the value in
\* tenths of a percent, rounded half to even, written with one decimal
PctToken(tenths) ==
    CASE tenths = 0 -> "0.0%"
      [] tenths = 10 -> "1.0%"
      [] tenths = 15 -> "1.5%"
      [] tenths = 100 -> "10.0%"
      [] tenths = 150 -> "15.0%"
      [] tenths = 200 -> "20.0%"
      [] tenths = 250 -> "25.0%"
      [] tenths = 300 -> "30.0%"
      [] tenths = 600 -> "60.0%"
      [] tenths = 850 -> "85.0%"
      [] tenths = 1000 -> "100.0%"

FormatPct(discount) ==
    LET q == discount \div 10
        r == discount % 10
    IN PctToken(IF r > 5 \/ (r = 5 /\ q % 2 = 1) THEN q + 1 ELSE q)

\* The negotiation response as the critic's patterns read it: of every line
\* the words a pattern looks at, in lower case (the patterns ignore case) and
\* in their order; the other words, and the lines that hold none, are left
\* out, except the first list number, where the amount pattern first matches
\* when no percentage precedes it, and "text" where left-out words stand
\* between a percentage and the word discount.
Tokens(line, discount) ==
    CASE line = "Negotiate competitive pricing with volume discounts" ->
            << "discount" >>
      [] line = "Negotiate {discount:.1%} discount with {vendor}" ->
            << FormatPct(discount), "discount" >>
      [] line = "Extended warranty period (minimum 24 months)" ->
            << "warranty" >>
      [] line \in { "Performance guarantee with SLA commitments",
                    "Financial stability guarantee or insurance",
                    "Delivery guarantee with penalty clauses",
                    "Software maintenance and updates guarantee",
                    "Hardware replacement guarantee",
                    "Service level agreement (SLA) guarantees" } ->
            << "guarantee" >>
      [] line = "Intellectual property indemnification" ->
            << "indemnification" >>
      [] line = "Enhanced warranty requirements due to {discount:.1%} discount target" ->
            << "warranty", FormatPct(discount), "discount" >>
      [] line = "Mitigate {discount:.1%} discount risk through comprehensive warranties" ->
            << FormatPct(discount), "discount", "warranties" >>
      [] OTHER -> <<>>

RECURSIVE Lines(_, _, _)
\* the lines f"{i}. {item}" from the i-th item on
Lines(items, i, discount) ==
    IF i > Len(items) THEN <<>>
    ELSE (IF Tokens(items[i], discount) = <<>> THEN <<>>
          ELSE << "NL" >> \o Tokens(items[i], discount))
         \o Lines(items, i + 1, discount)

\* a section of the response: the heading and the numbered items; an empty
\* list has no section
Section(heading, items, discount) ==
    IF items = <<>> THEN <<>>
    ELSE heading \o Lines(items, 1, discount)

\* NegotiationAgent._format_negotiation_response
_format_negotiation_response(result, discount) ==
    << "text", "NL" >>
        \o Tokens(result.pricing_proposal, discount)
        \o Section(<< "NL", "1." >>, result.contract_terms, discount)
        \o Section(<< "NL", "warranty" >>, result.warranty_requirements, discount)
        \o Tokens(result.negotiation_strategy, discount)
        \o Section(<<>>, result.risk_mitigation, discount)
        \o << "NL", FormatPct(result.confidence_score * 100) >>
        \o << "NL", "text", "discount", FormatPct(discount) >>

\* request.model_dump() of the NegotiationRequest: the discount is the
\* fraction the validator returned (0.20 is 20 in the critic's hundredths)
model_dump(n) ==
    [PlainRequest EXCEPT !.category = n.category,
                         !.has_target_discount_pct = TRUE,
                         !.target_discount_pct =
                             validate_discount(n.input).value \div 100]

\* the text negotiation_agent.process_request answers with: the formatted
\* result, or the error response when the payload was refused
AgentResponseText(n) ==
    IF n.pc = "answered" THEN _format_negotiation_response(n.result, n.value)
    ELSE _build_error_response("negotiation").agent_response

\* critic_result.revised_output or agent_result.agent_response
final_response(critic_result) ==
    IF Truthy(critic_result.revised_output) THEN critic_result.revised_output.text
    ELSE critic_result.original_output

\* negotiate_contract: the critic validates the agent's text against
\* request.model_dump() and the response is built
Criticized(n, text) ==
    [pc |-> "validated", entry |-> n.entry, input |-> n.input,
     vendor |-> n.vendor, category |-> n.category, value |-> n.value,
     answered |-> n.pc = "answered",
     llm |-> IF n.pc = "answered" THEN n.llm ELSE "none",
     warranty_requirements |->
         IF n.pc = "answered" THEN n.result.warranty_requirements ELSE <<>>,
     text |-> text,
     critic_result |-> validate_output(WorkflowCritic, text, model_dump(n))]

ValidateWithCritic ==
    /\ neg.pc \in {"answered", "rejected"}
    /\ neg.entry = "api"
    /\ neg.pc = "rejected" => validate_discount(neg.input).ok
    /\ neg' = Criticized(neg, AgentResponseText(neg))
    /\ UNCHANGED <<ctxVars, crit, im, api, pol, fc, client>>

\* a payload the agent refused is validated once more, as the dict the first
\* validation left behind
ValidateAgain ==
    /\ neg.pc = "rejected"
    /\ neg.entry = "agent"
    /\ neg' = [pc |-> "revalidated", entry |-> neg.entry, input |-> neg.input,
               vendor |-> neg.vendor, category |-> neg.category,
               value |-> neg.value,
               again |-> _validate_request_payload(PayloadOf(neg))]
    /\ UNCHANGED <<ctxVars, crit, im, api, pol, fc, client>>

InitNegotiation == InitCritic

NextNegotiation ==
    \/ PostNegotiation
    \/ SubmitToAgent
    \/ ValidatePayload
    \/ GenerateResult
    \/ Renormalize
    \/ ValidateWithCritic
    \/ ValidateAgain

SpecNegotiation == InitNegotiation /\ [][NextNegotiation]_vars

\* C19: the normalization of a negotiation discount (API model validator,
\* then the agent's payload validation) divides an input above 1 by 100
\* exactly once, yields a value in [0, 1] for every accepted input, rejects
\* an input still above 1 after the division, and is idempotent: sent
\* through the normalization again, the result is accepted and unchanged.
C19_NormalizationOnceAndIdempotent ==
    /\ neg.pc \in {"accepted", "answered", "renormalized"} =>
          /\ neg.value \in 0..10000
          /\ neg.value = IF neg.input > 10000 THEN neg.input \div 100
                         ELSE neg.input
    /\ (neg.pc # "idle" /\ neg.input \div 100 > 10000) =>
          neg.pc \in {"posted", "rejected", "revalidated"}
    /\ neg.pc = "renormalized" =>
          /\ neg.again.ok
          /\ neg.again.value = neg.value

\* 15 sent in percent form through the API became 0.15 and stayed 0.15
C19_Witness ==
    /\ neg.pc = "renormalized"
    /\ neg.entry = "api"
    /\ neg.input = 150000
    /\ neg.value = 1500
    /\ neg.again.value = 1500

IsIn(x, s) == \E i \in 1..Len(s) : s[i] = x

Submitted(n) == IF n.input > 10000 THEN n.input \div 100 ELSE n.input

HasMissingWarranty(violations) ==
    \E i \in 1..Len(violations) :
        violations[i] = PolicyViolation("missing_warranty", "MEDIUM", TRUE,
                                        "GPC-WARRANTY-001")

\* C21: when the negotiation endpoint hands the critic an agent text without
\* any of the words warranty, warranties, guarantee, protection, the critic
\* reports a MEDIUM auto-fixable MissingWarranty violation if the submitted
\* discount (in percent or fraction form) is above 15%, and none if it is at
\* most 15%.
C21_MissingWarrantyThroughEndpoint ==
    (neg.pc = "validated" /\ ~ warranty_mentioned(neg.text)) =>
        /\ Submitted(neg) > 1500 =>
              HasMissingWarranty(neg.critic_result.violations)
        /\ Submitted(neg) <= 1500 =>
              CountKind(neg.critic_result.violations, "missing_warranty") = 0

(***************************************************************************)
(* Forecast: the endpoint, payload validation and the variance tier        *)
(* Amounts are whole currency units.  A quarter is the list of the         *)
(* whitespace-separated parts of the string.                               *)
(***************************************************************************)
minor_variance_threshold == 5
significant_variance_threshold == 15
critical_variance_threshold == 25

\* datetime.now().year
current_year == 2026

NoBudget == -1

\* settings.budget_thresholds, "software:50000,hardware:100000,services:25000"
budget_thresholds ==
    [ c \in {"software", "hardware", "services"} |->
        CASE c = "software" -> 50000
          [] c = "hardware" -> 100000
          [] c = "services" -> 25000 ]

\* str.upper on the quarter part
upper(part) ==
    CASE part = "q1" -> "Q1" [] part = "q2" -> "Q2"
      [] part = "q3" -> "Q3" [] part = "q4" -> "Q4"
      [] OTHER -> part

\* api/models.py, ForecastRequest: the fields are present, category and
\* quarter have at least one character, planned_spend and current_budget are
\* >= 0, and validate_quarter refuses a quarter that is blank after strip()
ForecastRequestValid(body) ==
    /\ body.missing = {}
    /\ body.category # ""
    /\ body.quarter # <<>>
    /\ body.planned_spend >= 0
    /\ body.current_budget = NoBudget \/ body.current_budget >= 0

\* int(year_part) for the year parts int() accepts; any other raises
\* ValueError
YearValue ==
    ("2025" :> 2025) @@ ("2026" :> 2026) @@ ("2031" :> 2031) @@
    ("2032" :> 2032) @@ ("2099" :> 2099)

\* ForecastAgent._is_valid_quarter
_is_valid_quarter(quarter) ==
    /\ Len(quarter) = 2
    /\ upper(quarter[1]) \in {"Q1", "Q2", "Q3", "Q4"}
    /\ quarter[2] \in DOMAIN YearValue
    /\ YearValue[quarter[2]] >= current_year
    /\ YearValue[quarter[2]] <= current_year + 5

\* ForecastAgent._validate_request_payload
ForecastPayloadValid(payload) ==
    /\ payload.missing \cap {"category", "quarter", "planned_spend"} = {}
    /\ payload.planned_spend >= 0
    /\ strip(payload.category) # ""
    /\ _is_valid_quarter(payload.quarter)

\* ForecastAgent._get_budget_allocation
_get_budget_allocation(request) ==
    IF request.current_budget # NoBudget THEN request.current_budget
    ELSE IF request.category \in DOMAIN budget_thresholds
    THEN budget_thresholds[request.category]
    ELSE 50000

\* a comparison of the variance with a threshold that leaves equality out
Exceeds(variance, threshold) ==
    100 * variance.num > threshold * variance.den

\* abs_variance >= threshold, the threshold in hundredths
Reaches(variance, threshold) ==
    100 * variance.num >= threshold * variance.den

\* abs(variance_percentage)
Abs(variance) == [num |-> IF variance.num < 0 THEN - variance.num ELSE variance.num,
                  den |-> variance.den]

\* ForecastAgent._determine_variance_level
_determine_variance_level(variance_percentage) ==
    IF Reaches(Abs(variance_percentage), critical_variance_threshold)
    THEN (IF variance_percentage.num > 0 THEN "critical_overage" ELSE "under_budget")
    ELSE IF Reaches(Abs(variance_percentage), significant_variance_threshold)
    THEN (IF variance_percentage.num > 0 THEN "significant_overage" ELSE "under_budget")
    ELSE IF Reaches(Abs(variance_percentage), minor_variance_threshold)
    THEN (IF variance_percentage.num > 0 THEN "minor_overage" ELSE "on_target")
    ELSE "on_target"

\* variance_amount / budget_allocation, 0.0 for an allocation of 0
VariancePercentage(variance_amount, budget_allocation) ==
    IF budget_allocation > 0
    THEN Fraction(variance_amount, budget_allocation)
    ELSE [num |-> 0, den |-> 1]

\* ForecastAgent._analyze_budget_variance
_analyze_budget_variance(request) ==
    [planned_spend |-> request.planned_spend,
     budget_allocation |-> _get_budget_allocation(request),
     variance_amount |-> request.planned_spend - _get_budget_allocation(request),
     variance_percentage |->
         VariancePercentage(
             request.planned_spend - _get_budget_allocation(request),
             _get_budget_allocation(request)),
     variance_level |->
         _determine_variance_level(
             VariancePercentage(
                 request.planned_spend - _get_budget_allocation(request),
                 _get_budget_allocation(request)))]

\* planned spends and budgets a client sends
SpendInputs ==
    { -1, 0, 37500, 40000, 42500, 45000, 47500, 49000, 50000, 51000, 52500,
      55000, 57500, 60000, 62500, 200000 }

BudgetInputs == { NoBudget, 0, 50000, 100000 }

QuarterInputs ==
    { << "Q1", "2026" >>, << "q4", "2031" >>, << "Q3", "2099" >>,
      << "Q2", "2025" >>, << "Q4", "2032" >>, << "Q5", "2026" >>,
      << "Q1", "next" >>, << "Q1" >>, <<>> }

ForecastBodies ==
    { [missing |-> {}, category |-> c, quarter |-> q, planned_spend |-> p,
       current_budget |-> b] :
      c \in {"software", "travel"}, q \in QuarterInputs, p \in SpendInputs,
      b \in BudgetInputs }
    \cup { [missing |-> {"planned_spend"}, category |-> "software",
            quarter |-> << "Q1", "2026" >>, planned_spend |-> 0,
            current_budget |-> NoBudget] }

\* POST /agent/forecast: FastAPI validates the body against ForecastRequest
\* and answers 422 through validation_exception_handler when it fails
PostForecast ==
    /\ fc.pc = "idle"
    /\ \E body \in ForecastBodies :
         fc' = IF ForecastRequestValid(body)
               THEN [pc |-> "posted", body |-> body]
               ELSE [pc |-> "responded", body |-> body, status_code |-> 422,
                     error |-> "validation_error"]
    /\ UNCHANGED <<ctxVars, crit, im, api, pol, neg, client>>

\* forecast_agent.process_request: BaseAgent._validate_request
ValidateForecastPayload ==
    /\ fc.pc = "posted"
    /\ fc' = [fc EXCEPT !.pc = IF ForecastPayloadValid(fc.body)
                               THEN "accepted" ELSE "refused"]
    /\ UNCHANGED <<ctxVars, crit, im, api, pol, neg, client>>

\* _process_agent_request -> _analyze_forecast
AnalyzeForecast ==
    /\ fc.pc = "accepted"
    /\ fc' = [pc |-> "analyzed", body |-> fc.body,
              budget_variance |-> _analyze_budget_variance(fc.body)]
    /\ UNCHANGED <<ctxVars, crit, im, api, pol, neg, client>>

\* forecast_budget: the agent's result, or the error response of a refused
\* payload, goes through the critic and _build_agent_response
RespondForecast ==
    /\ fc.pc \in {"analyzed", "refused"}
    /\ fc' = [pc |-> "responded", body |-> fc.body, status_code |-> 200,
              error |-> "",
              agent_failed |-> fc.pc = "refused"]
    /\ UNCHANGED <<ctxVars, crit, im, api, pol, neg, client>>

InitForecast == InitCritic

NextForecast ==
    \/ PostForecast
    \/ ValidateForecastPayload
    \/ AnalyzeForecast
    \/ RespondForecast

SpecForecast == InitForecast /\ [][NextForecast]_vars

\* the tier the variance of p against b falls in, by the rule of the claim
TierOf(p, b) ==
    IF 100 * (p - b) >= 25 * b THEN "critical_overage"
    ELSE IF 100 * (p - b) >= 15 * b THEN "significant_overage"
    ELSE IF 100 * (p - b) >= 5 * b THEN "minor_overage"
    ELSE IF 100 * (p - b) <= - 15 * b THEN "under_budget"
    ELSE "on_target"

\* C22: for a forecast request with budget allocation b > 0 and planned
\* spend p >= 0, the variance tier is CriticalOverage for a variance of 25%
\* or more, SignificantOverage from 15% to below 25%, MinorOverage from 5% to
\* below 15%, UnderBudget at -15% or less, and OnTarget otherwise.
C22_VarianceTier ==
    (fc.pc = "analyzed" /\ fc.budget_variance.budget_allocation > 0) =>
        fc.budget_variance.variance_level =
            TierOf(fc.body.planned_spend, fc.budget_variance.budget_allocation)

\* 200000 planned against the default allocation of 50000 is a critical
\* overage
C22_Witness ==
    /\ fc.pc = "analyzed"
    /\ fc.body.planned_spend = 200000
    /\ fc.body.current_budget = NoBudget
    /\ fc.budget_variance.budget_allocation = 50000
    /\ fc.budget_variance.variance_level = "critical_overage"

\* the payload is valid by the rules of the interface: every field present,
\* amounts not negative, the quarter Q1..Q4 and a year from the current year
\* to five years ahead
PayloadIsValid(body) ==
    /\ body.missing = {}
    /\ body.category # ""
    /\ body.planned_spend >= 0
    /\ body.current_budget = NoBudget \/ body.current_budget >= 0
    /\ Len(body.quarter) = 2
    /\ body.quarter[1] \in {"Q1", "Q2", "Q3", "Q4"}
    /\ body.quarter[2] \in {"2026", "2027", "2028", "2029", "2030", "2031"}

\* C23: a request to an agent endpoint with an invalid payload (a missing
\* field, a value out of range, a quarter that is not Q[1-4] YYYY with YYYY
\* from the current year to five years ahead) is answered with HTTP 422 and
\* error=validation_error, never with a 200 AgentResponse.
C23_InvalidPayloadIs422 ==
    (fc.pc = "responded" /\ ~ PayloadIsValid(fc.body)) =>
        /\ fc.status_code = 422
        /\ fc.error = "validation_error"

(***************************************************************************)
(* BaseLLMClient.generate: connection check, attempts, backoff             *)
(* Delays are in seconds.                                                  *)
(***************************************************************************)
\* LLMClientFactory._build_config
retry_attempts == 3
retry_delay == 1

\* generate calls made on one client
MaxGenerate == 2

\* what awaiting _make_request ends in: a response, or one of the exceptions
\* the provider clients let out (an httpx timeout stands for the others that
\* are not LLMErrors)
RequestOutcomes == {"response", "ConnectionError", "ValidationError", "TimeoutException"}

\* a backoff that does not grow
DelayFixed(attempt) == retry_delay

\* retry_delay * (2 ** attempt)
Delay(attempt) == retry_delay * (2 ^ attempt)

\* generate is entered: the connection is verified first unless it was
CallGenerate ==
    /\ client.pc \in {"idle", "done"}
    /\ client.generated < MaxGenerate
    /\ client' = [client EXCEPT
                     !.pc = IF client.connection_verified
                            THEN "attempt" ELSE "verify",
                     !.generated = @ + 1,
                     !.attempt = 0, !.outcomes = <<>>, !.waits = <<>>,
                     !.last_exception = "None", !.result = "none"]
    /\ UNCHANGED <<ctxVars, crit, im, api, pol, neg, fc>>

\* await self.verify_connection(): False raises ConnectionError
VerifyConnection ==
    /\ client.pc = "verify"
    /\ \E ok \in BOOLEAN :
         client' = IF ok
                   THEN [client EXCEPT !.pc = "attempt",
                                       !.connection_verified = TRUE]
                   ELSE [client EXCEPT !.pc = "done",
                                       !.result = "ConnectionError"]
    /\ UNCHANGED <<ctxVars, crit, im, api, pol, neg, fc>>

\* one turn of the loop up to its await: the request is made; a response is
\* returned, an exception is kept and followed by a sleep unless the attempt
\* was the last
MakeRequest ==
    /\ client.pc = "attempt"
    /\ \E outcome \in RequestOutcomes :
         client' = [client EXCEPT
                      !.outcomes = Append(@, outcome),
                      !.last_exception =
                          IF outcome = "response" THEN @ ELSE outcome,
                      !.result = IF outcome = "response" THEN "response" ELSE @,
                      !.pc = IF outcome = "response" THEN "done"
                             ELSE IF client.attempt < retry_attempts - 1
                             THEN "sleep" ELSE "exhausted"]
    /\ UNCHANGED <<ctxVars, crit, im, api, pol, neg, fc>>

\* await asyncio.sleep(delay), then the next turn of the loop
Sleep ==
    /\ client.pc = "sleep"
    /\ client' = [client EXCEPT !.waits = Append(@, Delay(client.attempt)),
                                !.attempt = @ + 1,
                                !.pc = "attempt"]
    /\ UNCHANGED <<ctxVars, crit, im, api, pol, neg, fc>>

\* after the loop: the last exception is raised if it is a ConnectionError,
\* else a ConnectionError made from it
RaiseAfterRetries ==
    /\ client.pc = "exhausted"
    /\ client' = [client EXCEPT !.pc = "done", !.result = "ConnectionError"]
    /\ UNCHANGED <<ctxVars, crit, im, api, pol, neg, fc>>

\* reset_connection
ResetConnection ==
    /\ client.pc = "done"
    /\ client.connection_verified
    /\ client' = [client EXCEPT !.connection_verified = FALSE]
    /\ UNCHANGED <<ctxVars, crit, im, api, pol, neg, fc>>

InitClient == InitCritic

NextClient ==
    \/ CallGenerate
    \/ VerifyConnection
    \/ MakeRequest
    \/ Sleep
    \/ RaiseAfterRetries
    \/ ResetConnection

SpecClient == InitClient /\ [][NextClient]_vars

\* every await of generate returns: the provider calls are bounded by the
\* per-call timeout and the sleeps are finite
SpecClientFair ==
    /\ SpecClient
    /\ WF_vars(VerifyConnection)
    /\ WF_vars(MakeRequest)
    /\ WF_vars(Sleep)
    /\ WF_vars(RaiseAfterRetries)

\* the attempts made so far all failed
AllFailed(outcomes) == \A i \in 1..Len(outcomes) : outcomes[i] # "response"

\* what holds of one generate call at every moment
RetryDiscipline ==
    client.pc # "idle" =>
        /\ Len(client.outcomes) <= retry_attempts
        /\ AllFailed(SubSeq(client.outcomes, 1, Len(client.outcomes) - 1))
        /\ client.result = "response" <=>
              (client.outcomes # <<>>
               /\ client.outcomes[Len(client.outcomes)] = "response")
        /\ Len(client.waits) <= retry_attempts - 1
        /\ \A k \in 1..Len(client.waits) :
              client.waits[k] = retry_delay * 2 ^ (k - 1)
        /\ client.pc \in {"attempt", "sleep"} =>
              Len(client.waits) = Len(client.outcomes)
                  - (IF client.pc = "sleep" THEN 1 ELSE 0)
        /\ client.pc \in {"exhausted", "done"} /\ client.outcomes # <<>> =>
              Len(client.waits) = Len(client.outcomes) - 1
        /\ (client.pc = "done" /\ Len(client.outcomes) = retry_attempts
            /\ AllFailed(client.outcomes)) =>
              client.result = "ConnectionError"

Released(layer) ==
    CASE layer = "ETC" -> EtcReleased
      [] layer = "TSC" -> TscReleased
      [] OTHER -> DscReleased

\* the layers a pass may release tokens from; the "GPC: Protected from
\* pruning" line of the audit is a note, not a release, and is left aside
AuditLayers == {"ETC", "TSC", "DSC"}

Recorded(layer) ==
    \E i \in 1..Len(passlog.pruning_actions) :
        passlog.pruning_actions[i].layer = layer

\* C25: for every pruning pass the recorded pruning actions name exactly the
\* layers whose recounted token count decreased in the pass, each with the
\* number of tokens it released, and an overflow is reported exactly when
\* the recounted total still exceeds the target after the Domain step.
C25_AuditMatchesRelease ==
    PassRan =>
        /\ \A layer \in AuditLayers : Recorded(layer) <=> Released(layer) > 0
        /\ \A i \in 1..Len(passlog.pruning_actions) :
               passlog.pruning_actions[i].layer \in AuditLayers =>
                   passlog.pruning_actions[i].tokens
                       = Released(passlog.pruning_actions[i].layer)
        /\ passlog.warning <=> ctx.total_tokens > target


\* C26: when the agent's payload validation rejects a payload, the payload
\* is left exactly as it was submitted, and validating the same payload
\* again rejects it again (a discount above 100% is never accepted later).
C26_RejectionLeavesPayload ==
    neg.pc = "revalidated" =>
        /\ neg.value = neg.input
        /\ ~ neg.again.ok


\* the WorkflowResult execute_workflow builds from the critic's answer to
\* the submitted agent text
WorkflowResultOf(c) ==
    WorkflowSuccess("request", "negotiation",
                    [agent |-> 0, critic |-> 0, total |-> 0],
                    [agent_response |-> c.agent_output,
                     context_usage |-> NoContextUsage],
                    c.result)

\* C27: whenever a workflow result has compliance_status REVISED, the critic
\* produced a revised text, final_output is that revised text and
\* metrics.auto_revisions_applied is 1, for every critic configuration
\* (auto_revision_enabled true or false).
C27_RevisedHasRevision ==
    (/\ crit.pc = "reported" /\ crit.site = "workflow"
     /\ WorkflowResultOf(crit).compliance_status = "REVISED") =>
        /\ crit.result.revised_output.present
        /\ WorkflowResultOf(crit).final_output = crit.result.revised_output.text
        /\ WorkflowResultOf(crit).metrics.auto_revisions_applied = 1


\* C28: after any sequence of process_request and reset_metrics calls the
\* Integration Manager's counters satisfy total_requests =
\* successful_requests + failed_requests, negotiation_requests +
\* compliance_requests + forecast_requests = successful_requests,
\* auto_revisions <= successful_requests and manual_reviews_required <=
\* successful_requests.
C28_CounterInvariants ==
    /\ im.metrics.total_requests
           = im.metrics.successful_requests + im.metrics.failed_requests
    /\ im.metrics.negotiation_requests + im.metrics.compliance_requests
           + im.metrics.forecast_requests = im.metrics.successful_requests
    /\ im.metrics.auto_revisions <= im.metrics.successful_requests
    /\ im.metrics.manual_reviews_required <= im.metrics.successful_requests

\* after a reset, a failed and a successful request have been counted
C28_Witness ==
    /\ im.resets >= 1
    /\ im.metrics.failed_requests >= 1
    /\ im.metrics.successful_requests >= 1
    /\ im.metrics.negotiation_requests + im.metrics.forecast_requests >= 1


\* the words of s stand in t, in a row
IsInfix(s, t) ==
    \E i \in 0..(Len(t) - Len(s)) : SubSeq(t, i + 1, i + Len(s)) = s

\* the request was accepted, the language model answered, the agent added
\* its warranties for an aggressive discount, and the critic finds nothing
\* in the response formatted from the model's sections alone
InjectedOnCleanSections(n) ==
    /\ n.pc = "validated" /\ n.answered /\ n.llm = "answers"
    /\ n.value >= aggressive_discount_threshold /\ n.value <= 10000
    /\ _detect_violations(WorkflowCritic,
           _format_negotiation_response(_parse_llm_response, n.value),
           model_dump(n)) = <<>>

\* C29: the text the Negotiation agent injects for an aggressive discount
\* never triggers a critic violation: for every accepted request with a
\* discount in [0,1] whose model-generated sections are violation-free, the
\* critic reports no violation on the agent's artifact and the injected
\* warranty section stands unaltered in the final output.
C29_InjectedTextPassesCritic ==
    InjectedOnCleanSections(neg) =>
        /\ neg.critic_result.violations = <<>>
        /\ IsInfix(Section(<< "NL", "warranty" >>, neg.warranty_requirements,
                           neg.value),
                   final_response(neg.critic_result))


\* C30: pruning is idempotent on its own output: a second prune_context
\* with the same target on an already pruned context leaves the contents of
\* the Session and Domain layers unchanged (a summary line is not
\* summarized again).
C30_PruningIdempotent ==
    (pc = "pruned" /\ passes >= 2) =>
        /\ Contents(ctx.tsc) = Contents(before.tsc)
        /\ Contents(ctx.dsc) = Contents(before.dsc)

====
